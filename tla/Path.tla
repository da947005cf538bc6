-------------------------------- MODULE Path --------------------------------
(***************************************************************************)
(* ms_path (src/src/path.c): a call reads a path and writes a C string to  *)
(* a buffer of buff_len characters, size here; it is given as part of a    *)
(* larger memory, to see what is written behind it.                        *)
(***************************************************************************)
EXTENDS Naturals, Sequences, SequencesExt

CONSTANTS
  MaxPath,   \* bound on the length of the paths that are given
  MaxSize    \* bound on the size of the buffer

Sep == "/"
Ext == "."
Win32Sep == "\\"
DriveSep == ":"
Nul == "0"

Chars == {"a", Sep, Ext, Win32Sep, DriveSep}
Paths == UNION {[1 .. n -> Chars] : n \in 0 .. MaxPath}
Memory == 1 .. MaxSize + 2

VARIABLES
  first,          \* the path given
  second,         \* the one joined to it
  size,           \* buff_len
  junk,           \* what the buffer holds before a call
  buffer,         \* the memory the buffer begins
  call,           \* the function called last
  input,          \* the path the next call reads: the first, or a joined one
  result          \* what the call returned

vars == <<first, second, size, junk, buffer, call, input, result>>

Unwritten == [c \in Memory |-> junk]

Init ==
  /\ first \in Paths /\ second = << >>
  /\ size \in 1 .. MaxSize
  /\ junk \in {"a", DriveSep}
  /\ buffer = Unwritten
  /\ call = "none"
  /\ input = first
  /\ result = "none"

-----------------------------------------------------------------------------
(* Memory with a text written from its first character on. *)
Written(text) == [c \in Memory |-> IF c <= Len(text) THEN text[c] ELSE junk]

(* strcpy, and strncpy, which fills up with zeros or leaves none. *)
Copied(text) == Written(Append(text, Nul))
CopiedN(text) == Written([c \in 1 .. size |-> IF c <= Len(text) THEN text[c] ELSE Nul])

(* The last separator, 0 for none. *)
LastSep(s) == LET seps == {c \in DOMAIN s : s[c] = Sep} IN IF seps = {} THEN 0 ELSE Max(seps)

From(s, c) == SubSeq(s, c, Len(s))

(* What a call leaves alone, and the calls there may be. *)
Call(name) ==
  /\ call = "none" \/ (call = "join" /\ result = "success" /\ name # "join")
  /\ call' = name
  /\ UNCHANGED <<first, size, junk>>

(* ms_path_get_extension: behind the first separator in the file name. *)
GetExtension ==
  LET name == From(input, LastSep(input) + 1)
      exts == {c \in DOMAIN name : name[c] = Ext}
      text == IF exts = {} THEN << >> ELSE From(name, Min(exts) + 1)
  IN /\ Call("extension") /\ UNCHANGED <<second, input>>
     /\ IF Len(text) < size
          THEN buffer' = Copied(text) /\ result' = "success"
          ELSE buffer' = Unwritten /\ result' = "length"

(* ms_path_get_filename: strncpy, then a look at the last character. *)
GetFilename ==
  /\ Call("filename") /\ UNCHANGED <<second, input>>
  /\ buffer' = CopiedN(From(input, LastSep(input) + 1))
  /\ result' = IF buffer'[size] = Nul THEN "success" ELSE "length"

(***************************************************************************)
(* ms_path_get_parent copies the whole path, which has to fit, and then    *)
(* cuts it.  Behind a path of one character it looks at a second one that  *)
(* was not written.                                                        *)
(***************************************************************************)
GetParent ==
  LET path == IF Len(input) < size THEN Written(input) ELSE Written(SubSeq(input, 1, size))
      offset == IF LastSep(input) = 0 THEN 0 ELSE LastSep(input) - 1
      drive == offset = 0 /\ input # << >> /\ size > 1 /\ path[2] = DriveSep
  IN /\ Call("parent") /\ UNCHANGED <<second, input>>
     /\ \/ /\ Len(input) >= size \/ (drive /\ size < 3)
           /\ buffer' = path
           /\ result' = "length"
        \/ /\ Len(input) < size /\ ~ (drive /\ size < 3)
           /\ buffer' = [path EXCEPT ![IF drive THEN 3 ELSE offset + 1] = Nul]
           /\ result' = "success"

(* ms_path_convert_slashes: the buffer is at least as large as the path. *)
ConvertSlashes ==
  /\ Call("convert") /\ UNCHANGED <<second, input>>
  /\ Len(input) < size
  /\ buffer' = Copied([c \in DOMAIN input |-> IF input[c] = Win32Sep THEN Sep ELSE input[c]])
  /\ result' = "success"

(* Mutant: room for the second path is counted from the end of the first. *)
JoinFitsBare(joint, tail) == Len(first) + Len(tail) < size

JoinFits(joint, tail) == size - Len(joint) >= Len(tail) + 1

(* ms_path_join: each early return leaves what was written so far. *)
Join(s) ==
  LET joint == IF first # << >> /\ Last(first) # Sep /\ s # << >>
                 THEN Append(first, Sep) ELSE first
      tail == IF s # << >> /\ s[1] = Sep THEN Tail(s) ELSE s
  IN /\ Call("join") /\ second' = s
     /\ \/ /\ size < Len(first) + 1
           /\ buffer' = Unwritten /\ result' = "length"
           /\ UNCHANGED input
        \/ /\ size >= Len(first) + 1
           /\ Len(joint) = size /\ joint # first
           /\ buffer' = Written(first) /\ result' = "length"
           /\ UNCHANGED input
        \/ /\ size >= Len(first) + 1 /\ (Len(joint) < size \/ joint = first)
           /\ ~ JoinFits(joint, tail)
           /\ buffer' = Written(joint) /\ result' = "length"
           /\ UNCHANGED input
        \/ /\ size >= Len(first) + 1 /\ (Len(joint) < size \/ joint = first)
           /\ JoinFits(joint, tail)
           /\ buffer' = Copied(joint \o tail) /\ result' = "success"
           /\ input' = joint \o tail

Next == GetExtension \/ GetFilename \/ GetParent \/ ConvertSlashes \/ \E s \in Paths : Join(s)

Spec == Init /\ [][Next]_vars

-----------------------------------------------------------------------------
TypeOK ==
  /\ first \in Paths /\ second \in Paths /\ size \in 1 .. MaxSize
  /\ buffer \in [Memory -> Chars \cup {Nul}]
  /\ result \in {"none", "success", "length"}

(* The C string the buffer holds. *)
Holds(text) ==
  /\ Len(text) < size
  /\ \A c \in DOMAIN text : buffer[c] = text[c]
  /\ buffer[Len(text) + 1] = Nul

(* The splits of a path before and behind a character, at any such. *)
SplitsAt(s, char) ==
  {<<SubSeq(s, 1, c - 1), From(s, c + 1)>> : c \in {d \in DOMAIN s : s[d] = char}}

(* The directory, as far as there is one, and the name of a path. *)
IsName(name, s) ==
  \/ name = s /\ SplitsAt(s, Sep) = {}
  \/ \E split \in SplitsAt(s, Sep) : split[2] = name /\ SplitsAt(name, Sep) = {}

HasDrive(s) == Len(s) >= 2 /\ s[2] = DriveSep /\ \A c \in 2 .. Len(s) : s[c] # Sep

IsParent(text, s) ==
  IF HasDrive(s)
    THEN text = SubSeq(s, 1, 2)
    ELSE \/ text = << >> /\ SplitsAt(s, Sep) = {}
         \/ \E split \in SplitsAt(s, Sep) : split[1] = text /\ SplitsAt(split[2], Sep) = {}

IsExtension(text, s) ==
  \E name \in {From(s, c) : c \in 1 .. Len(s) + 1} :
    /\ IsName(name, s)
    /\ \/ text = << >> /\ SplitsAt(name, Ext) = {}
       \/ \E split \in SplitsAt(name, Ext) : split[2] = text /\ SplitsAt(split[1], Ext) = {}

(* The texts a call may answer. *)
Answers ==
  CASE call = "filename" -> {t \in Suffixes(input) : IsName(t, input)}
    [] call = "extension" -> {t \in Suffixes(input) : IsExtension(t, input)}
    [] call = "parent" -> {t \in Prefixes(input) : IsParent(t, input)}
    [] OTHER -> {input}

(***************************************************************************)
(* A call that succeeds leaves the name, extension, parent or joined path  *)
(* as a string that fits the buffer; one that returns MS_RESULT_LENGTH did *)
(* so because that, or for a parent the path, does not fit; and none       *)
(* writes behind the buffer.  The parent of a path of one character is     *)
(* left out where the character not written is a ":" (ms_path).            *)
(***************************************************************************)
PathsExact ==
  /\ \A c \in Memory : c > size => buffer[c] = junk
  /\ call \in {"filename", "extension"} \/ (call = "parent" /\ (Len(input) # 1 \/ junk # DriveSep))
       => IF result = "success"
            THEN \E t \in Answers : Holds(t)
            ELSE \A t \in Answers : Len(IF call = "parent" THEN input ELSE t) >= size

(***************************************************************************)
(* A name joined to a path that ends in no separator is what get_filename  *)
(* finds in the joined path, and the path its parent, in a buffer the      *)
(* joined path fits (ms_path_join, ms_path_get_filename and _get_parent).  *)
(***************************************************************************)
JoinSplits ==
  input # first /\ first # << >> /\ Last(first) # Sep /\ second # << >> /\ ~ Contains(second, Sep)
    => /\ call = "join" => Holds(input)
       /\ call = "filename" => Holds(second)
       /\ call = "parent" => Holds(first)
=============================================================================
