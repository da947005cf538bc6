------------------------------- MODULE Config -------------------------------
(***************************************************************************)
(* The configuration parser (src/src/config.c), character by character:    *)
(* it collects a line in a buffer, which is not emptied between lines, and *)
(* hands the buffer to ms_config_parse_line.  Lines fit the buffer.        *)
(***************************************************************************)
EXTENDS Naturals, Sequences, SequencesExt

CONSTANTS
  MaxText   \* bound on the length of a text

Letter == "a"
Blank == "_"    \* a space or a tab
Hash == "#"
Break == "n"    \* a line feed or a carriage return
Nul == "0"

Chars == {Letter, Blank, Hash, Break}
Texts == UNION {[1 .. n -> Chars] : n \in 0 .. MaxText}

NoValue == << >>   \* NULL; a value there is has a character

VARIABLES
  text,      \* config
  read,      \* i: how much of it is read
  line,      \* line, from its first character on
  length,    \* j
  entries,   \* the entries the callback got
  state      \* "reading", "done" or "refused", when the callback failed

vars == <<text, read, line, length, entries, state>>

Init ==
  /\ text \in Texts
  /\ read = 0
  /\ line = [c \in 1 .. MaxText + 1 |-> Nul]
  /\ length = 0
  /\ entries = << >>
  /\ state = "reading"

-----------------------------------------------------------------------------
IsBlank(c) == c \in {Blank, Break}

(* The C string that begins a buffer. *)
CString(buffer) ==
  SubSeq(buffer, 1, Min({c \in DOMAIN buffer : buffer[c] = Nul}) - 1)

(* find_blank and find_non_blank: the rest of the string from there on. *)
FromNonBlank(s) ==
  LET found == {c \in DOMAIN s : ~ IsBlank(s[c])}
  IN IF found = {} THEN << >> ELSE SubSeq(s, Min(found), Len(s))

FromBlank(s) ==
  LET found == {c \in DOMAIN s : IsBlank(s[c])}
  IN IF found = {} THEN << >> ELSE SubSeq(s, Min(found), Len(s))

(* Mutant: one trailing blank is taken off. *)
TrimOne(s) == IF s # << >> /\ IsBlank(Last(s)) THEN Front(s) ELSE s

(* trim_right *)
TrimRight(s) ==
  LET solid == {c \in DOMAIN s : ~ IsBlank(s[c])}
  IN IF solid = {} THEN << >> ELSE SubSeq(s, 1, Max(solid))

(* ms_config_parse_line: the entry in a line, none of a blank or a comment. *)
ParseLine(s) ==
  LET rest == FromNonBlank(s)
      tail == FromBlank(rest)
  IN IF rest = << >> \/ rest[1] = Hash
       THEN << >>
       ELSE <<[key |-> SubSeq(rest, 1, Len(rest) - Len(tail)),
               value |-> TrimRight(FromNonBlank(tail))]>>

(* Calls it, and the callback; when that fails the parser returns its error. *)
Report(s, next) ==
  \/ /\ entries' = entries \o ParseLine(s)
     /\ state' = next
  \/ /\ ParseLine(s) # << >>
     /\ state' = "refused"
     /\ UNCHANGED entries

(* ms_config_parse, inside a line. *)
Collect ==
  /\ state = "reading" /\ read < Len(text)
  /\ text[read + 1] # Break
  /\ read' = read + 1
  /\ line' = [line EXCEPT ![length + 1] = text[read + 1]]
  /\ length' = length + 1
  /\ UNCHANGED <<text, entries, state>>

(* At the end of one. *)
EndLine ==
  /\ state = "reading" /\ read < Len(text)
  /\ text[read + 1] = Break
  /\ read' = read + 1
  /\ line' = [line EXCEPT ![length + 1] = Nul]
  /\ length' = 0
  /\ Report(CString(line'), "reading")
  /\ UNCHANGED text

(***************************************************************************)
(* At the end of the text.  The buffer is not terminated where the last    *)
(* line ends, and so holds what an earlier, longer one left there.         *)
(***************************************************************************)
EndText ==
  /\ state = "reading" /\ read = Len(text)
  /\ Report(CString(line), "done")
  /\ UNCHANGED <<text, read, line, length>>

Next == Collect \/ EndLine \/ EndText

Spec == Init /\ [][Next]_vars

-----------------------------------------------------------------------------
TypeOK ==
  /\ text \in Texts /\ read \in 0 .. Len(text)
  /\ line \in [1 .. MaxText + 1 -> Chars \cup {Nul}]
  /\ length \in 0 .. read
  /\ state \in {"reading", "done", "refused"}

(* The lines read, and where the one that is being read begins. *)
Breaks == {b \in 1 .. read : text[b] = Break}
Begins == {1} \cup {b + 1 : b \in Breaks}
LineFrom(a) ==
  LET ends == {b \in Breaks : b >= a}
  IN SubSeq(text, a, IF ends = {} THEN read ELSE Min(ends) - 1)

Complete == {a \in Begins : \E b \in Breaks : b >= a}

(* A line with an entry, as src/include/moonsugar/config.h describes one. *)
IsEntry(s) ==
  \E c \in DOMAIN s :
    ~ IsBlank(s[c]) /\ s[c] # Hash /\ \A d \in 1 .. c - 1 : IsBlank(s[d])

(* Blanks, the key, blanks, the value and blanks make up the line. *)
Describes(entry, s) ==
  /\ entry.key # << >> /\ ~ \E c \in DOMAIN entry.key : IsBlank(entry.key[c])
  /\ \E a \in 1 .. Len(s), z \in 0 .. Len(s) :
       /\ \A c \in 1 .. Len(s) : c < a \/ c > z => IsBlank(s[c])
       /\ a <= z /\ ~ IsBlank(s[a]) /\ ~ IsBlank(s[z])
       /\ SubSeq(s, a, a + Len(entry.key) - 1) = entry.key
       /\ IF entry.value = NoValue
            THEN z = a + Len(entry.key) - 1
            ELSE /\ SubSeq(s, z - Len(entry.value) + 1, z) = entry.value
                 /\ ~ IsBlank(entry.value[1])
                 /\ z - Len(entry.value) >= a + Len(entry.key)
                 /\ \A c \in a + Len(entry.key) .. z - Len(entry.value) : IsBlank(s[c])

(* The lines that have an entry, and the number of one among them. *)
WithEntry(begins) == {a \in begins : IsEntry(LineFrom(a))}
Number(a, begins) == Cardinality({b \in WithEntry(begins) : b <= a})

EntriesOf(begins) ==
  /\ Len(entries) = Cardinality(WithEntry(begins))
  /\ \A a \in WithEntry(begins) : Describes(entries[Number(a, begins)], LineFrom(a))

(***************************************************************************)
(* The callback has got one entry for every line that is one, in order,    *)
(* with the key and the value the documentation describes.  At the end of  *)
(* the text that is so when no line was longer than the last; longer ones  *)
(* leave a tail in the buffer (ms_config_parse, ms_config_parse_line).     *)
(***************************************************************************)
EntriesMatch ==
  /\ state = "reading" => EntriesOf(Complete)
  /\ state = "done" /\ (\A a \in Complete : Len(LineFrom(a)) <= length) => EntriesOf(Begins)
=============================================================================
