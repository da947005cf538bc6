--------------------------------- MODULE Uri ---------------------------------
(***************************************************************************)
(* ms_uri_decode (src/src/uri.c).  A text is a sequence of characters; a   *)
(* letter stands for any that delimits nothing, and the three characters   *)
(* of an escape for one, which no search mistakes for a delimiter.         *)
(***************************************************************************)
EXTENDS Naturals, Sequences, SequencesExt

CONSTANTS
  Words,   \* what users, passwords, hosts, paths, queries, fragments are
  Ports    \* what ports are: sequences of digits

Null == <<"NULL">>
Delimiters == {":", "/", "?", "#", "@"}
Escape(c) ==
  CASE c = ":" -> "%3A" [] c = "/" -> "%2F" [] c = "?" -> "%3F"
    [] c = "#" -> "%23" [] c = "@" -> "%40" [] OTHER -> c
Digits == {"0", "8"}
Escapes == {Escape(c) : c \in Delimiters}

Fields == {"user", "password", "host", "port", "path", "query", "fragment"}

VARIABLES
  given,    \* the components of the URI that is decoded
  data,     \* out_data
  result    \* "none" before the call; "crash" when it searched NULL

vars == <<given, data, result>>

Optional(set) == set \cup {Null}

(* URIs with a scheme: passwords and ports come with a user and a host. *)
Givens ==
  {g \in [user : Optional(Words), password : Optional(Words), host : Optional(Words),
          port : Optional(Ports), path : Optional(Words), query : Optional(Words),
          fragment : Optional(Words)] :
     /\ g.password # Null => g.user # Null
     /\ g.user # Null \/ g.port # Null => g.host # Null}

Nothing == [f \in Fields |-> Null]

Init ==
  /\ given \in Givens
  /\ data = Nothing
  /\ result = "none"

-----------------------------------------------------------------------------
(* The text of a URI behind its scheme, by the generic syntax. *)
Escaped(part) == [c \in DOMAIN part |-> Escape(part[c])]
After(delimiter, part) == IF part = Null THEN << >> ELSE <<delimiter>> \o Escaped(part)

Text(g) ==
  (IF g.host = Null THEN << >>
   ELSE <<"/", "/">> \o (IF g.user = Null THEN << >>
                         ELSE Escaped(g.user) \o After(":", g.password) \o <<"@">>)
                     \o Escaped(g.host) \o After(":", g.port))
  \o (IF g.host = Null THEN (IF g.path = Null THEN << >> ELSE Escaped(g.path)) ELSE After("/", g.path))
  \o After("?", g.query)
  \o After("#", g.fragment)

(* find *)
Has(s, delimiter) == Contains(s, delimiter)

Before(s, delimiter) ==
  IF Has(s, delimiter)
    THEN SubSeq(s, 1, Min({c \in DOMAIN s : s[c] = delimiter}) - 1) ELSE s

Behind(s, delimiter) ==
  IF Has(s, delimiter)
    THEN SubSeq(s, Min({c \in DOMAIN s : s[c] = delimiter}) + 1, Len(s)) ELSE Null

(* Mutant: the two digits of an escape are taken for characters as well. *)
LongDecoded(s) ==
  FlattenSeq([c \in DOMAIN s |->
    IF s[c] \in Escapes THEN <<CHOOSE d \in Delimiters : Escape(d) = s[c], "8", "8">> ELSE <<s[c]>>])

(* pct_decode *)
Decoded(s) ==
  [c \in DOMAIN s |->
     IF s[c] \in Escapes THEN CHOOSE d \in Delimiters : Escape(d) = s[c] ELSE s[c]]

(***************************************************************************)
(* The authority.  Without a path the search for the query begins at its   *)
(* first character, in the user or the host, each cut off where it ends.   *)
(***************************************************************************)
Authority(hier) ==
  LET rest == SubSeq(hier, 3, Len(hier))
      userinfo == IF Has(rest, "@") THEN Before(rest, "@") ELSE Null
      host == IF Has(rest, "@") THEN Behind(rest, "@") ELSE rest
      port == Behind(host, ":")
      next == IF port = Null THEN host ELSE port
      digits == {c \in DOMAIN port : \A d \in 1 .. c : port[d] \in Digits}
  IN [user |-> IF userinfo = Null THEN Null ELSE Before(userinfo, ":"),
      password |-> IF userinfo = Null THEN Null ELSE Behind(userinfo, ":"),
      host |-> IF port = Null THEN Before(host, "/") ELSE Before(host, ":"),
      port |-> IF port = Null THEN Null ELSE SubSeq(port, 1, Cardinality(digits)),
      path |-> Behind(next, "/"),
      query |-> Null, fragment |-> Null, rest |-> << >>,
      next |-> IF Has(next, "/") THEN "path" ELSE IF userinfo = Null THEN "host" ELSE "user"]

(* What follows the scheme without one. *)
Bare(hier) ==
  LET hasPath == hier = << >> \/ hier[1] \notin {"?", "#"}
  IN [user |-> Null, password |-> Null, host |-> Null, port |-> Null,
      path |-> IF hasPath THEN hier ELSE Null,
      query |-> Null, fragment |-> Null, rest |-> hier,
      next |-> IF hasPath THEN "path" ELSE "rest"]

HasAuthority(hier) == Len(hier) >= 2 /\ hier[1] = "/" /\ hier[2] = "/"

Parsed(hier) == IF HasAuthority(hier) THEN Authority(hier) ELSE Bare(hier)

(***************************************************************************)
(* The query is cut off the component next points into; the fragment off   *)
(* the query, or off the path, which may be NULL.                          *)
(***************************************************************************)
WithQuery(p) ==
  [p EXCEPT !.query = Behind(p[p.next], "?"), ![p.next] = Before(@, "?")]

Searched(p) == IF p.query = Null THEN "path" ELSE "query"

WithFragment(p) ==
  [p EXCEPT !.fragment = Behind(p[Searched(p)], "#"), ![Searched(p)] = Before(@, "#")]

(* A port is a number and is not decoded. *)
Component(p, f) == IF p[f] = Null \/ f = "port" THEN p[f] ELSE Decoded(p[f])

(* ms_uri_decode *)
Decode ==
  LET p == WithQuery(Parsed(Text(given)))
  IN /\ result = "none"
     /\ p[Searched(p)] # Null
     /\ result' = "success"
     /\ data' = [f \in Fields |-> Component(WithFragment(p), f)]
     /\ UNCHANGED given

DecodeCrash ==
  LET p == WithQuery(Parsed(Text(given)))
  IN /\ result = "none"
     /\ p[Searched(p)] = Null
     /\ result' = "crash"
     /\ UNCHANGED <<given, data>>

(* A text without a scheme: MS_RESULT_INVALID_ARGUMENT. *)
DecodeInvalid ==
  /\ result = "none"
  /\ result' = "invalid"
  /\ UNCHANGED <<given, data>>

Next == Decode \/ DecodeCrash \/ DecodeInvalid

Spec == Init /\ [][Next]_vars

-----------------------------------------------------------------------------
TypeOK ==
  /\ given \in Givens
  /\ DOMAIN data = Fields
  /\ result \in {"none", "success", "invalid", "crash"}

(***************************************************************************)
(* URIs the code can take apart: those with a path, and those without one  *)
(* that have a query, behind a host alone or nothing.                      *)
(***************************************************************************)
TakenApart(g) ==
  g.path # Null \/ (g.query # Null /\ g.user = Null /\ g.port = Null)

(***************************************************************************)
(* Decoding gives back the components a URI was put together from, escaped *)
(* delimiters in any of them included, and NULL for those it does not have *)
(* (ms_uri_decode).                                                        *)
(***************************************************************************)
RoundTrip ==
  TakenApart(given) => /\ result # "crash"
                       /\ result = "success" => data = [f \in Fields |-> given[f]]
=============================================================================
