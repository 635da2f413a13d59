-------------------------------- MODULE Text --------------------------------
(***************************************************************************)
(* The conversions that every name and path goes through: the program's    *)
(* are UTF-16 with backslashes, the system's are UTF-8 with slashes.       *)
(*                                                                         *)
(* A string is a sequence of bytes or of 16-bit units, without its end.    *)
(* Every conversion writes to a buffer of "room" places, the end included, *)
(* and cuts what does not fit.                                             *)
(***************************************************************************)
EXTENDS Integers, Sequences

CONSTANTS
  PosixPaths,    \* bound: absolute paths the system may name, valid UTF-8
  WideStrings,   \* bound: what the program may pass, 16-bit units
  ByteStrings,   \* bound: what else may be in the file system, bytes
  Rooms          \* bound: sizes of the buffers

VARIABLES
  kind,      \* "path", "string" or "bytes": where it comes from
  origin,    \* the string at first
  stage,     \* the form it has now
  str,
  room

textVars == <<kind, origin, stage, str, room>>

TextInit ==
  /\ room \in Rooms
  /\ \/ kind = "path"   /\ stage = "posix" /\ origin \in PosixPaths
     \/ kind = "string" /\ stage = "wide"  /\ origin \in WideStrings
     \/ kind = "bytes"  /\ stage = "win"   /\ origin \in ByteStrings
  /\ str = origin

SlashCh   == 47
Backslash == 92
Colon     == 58

LetterCh(c) == c \in 65 .. 90 \cup 97 .. 122

At(s, i) == IF i \in 1 .. Len(s) THEN s[i] ELSE 0

Cut(s, n) == SubSeq(s, 1, IF Len(s) < n THEN Len(s) ELSE n)

High(u) == u \in 55296 .. 56319
Low(u)  == u \in 56320 .. 57343

MaxUnit == 65535

-----------------------------------------------------------------------------
(* wchar_to_utf8.                                                          *)

Utf8(cp) ==
  LET Cont(shift) == 128 + ((cp \div shift) % 64)
  IN  IF cp < 128 THEN <<cp>>
      ELSE IF cp < 2048 THEN <<192 + cp \div 64, Cont(1)>>
      ELSE IF cp < 65536 THEN <<224 + cp \div 4096, Cont(64), Cont(1)>>
      ELSE <<240 + cp \div 262144, Cont(4096), Cont(64), Cont(1)>>

\* Mutant of Pair: the offset of the pairs is left out.
PairBare(high, low) == (high - 55296) * 1024 + (low - 56320)

Pair(high, low) == 65536 + (high - 55296) * 1024 + (low - 56320)

\* The next code point of src, for which four bytes must be free.
Encode(src, size, st) ==
  LET pair == High(At(src, st.at)) /\ Low(At(src, st.at + 1))
      cp   == IF pair THEN Pair(src[st.at], src[st.at + 1]) ELSE At(src, st.at)
  IN  IF st.at > Len(src) \/ Len(st.out) + 4 >= size THEN st
      ELSE [at |-> st.at + (IF pair THEN 2 ELSE 1), out |-> st.out \o Utf8(cp)]

WcharToUtf8(src, size) ==
  LET scan[k \in 0 .. Len(src)] ==
        IF k = 0 THEN [at |-> 1, out |-> <<>>] ELSE Encode(src, size, scan[k - 1])
  IN  scan[Len(src)].out

-----------------------------------------------------------------------------
(* utf8_next and utf8_to_wchar.                                            *)

Replacement == 65533

\* The bytes that follow a lead byte.
Following(c) == IF c \in 194 .. 223 THEN 1 ELSE IF c \in 224 .. 239 THEN 2 ELSE IF c \in 240 .. 244 THEN 3 ELSE 0

Wrong(s, i, n) == {k \in 1 .. n : At(s, i + k) \notin 128 .. 191}

FirstOf(S) == CHOOSE k \in S : \A j \in S : k <= j

\* The bits of a lead byte and of n others.
Bits(s, i, n) ==
  LET low(k) == At(s, i + k) % 64
  IN  CASE n = 1 -> (s[i] % 32) * 64 + low(1)
        [] n = 2 -> (s[i] % 16) * 4096 + low(1) * 64 + low(2)
        [] n = 3 -> (s[i] % 8) * 262144 + low(1) * 4096 + low(2) * 64 + low(3)
        [] OTHER -> s[i]

\* The code point at s[i], Replacement if it is none, and the bytes it takes.
Utf8Next(s, i) ==
  LET more == Following(s[i])
      bad  == Wrong(s, i, more)
      v    == Bits(s, i, more)
  IN  IF s[i] < 128 THEN [cp |-> s[i], len |-> 1]
      ELSE IF more = 0 THEN [cp |-> Replacement, len |-> 1]
      ELSE IF bad # {} THEN [cp |-> Replacement, len |-> FirstOf(bad)]
      ELSE IF \/ more = 2 /\ v < 2048
              \/ more = 3 /\ v < 65536
              \/ v > 1114111 \/ High(v) \/ Low(v)
           THEN [cp |-> Replacement, len |-> more + 1]
           ELSE [cp |-> v, len |-> more + 1]

Utf16(cp) ==
  IF cp < 65536 THEN <<cp>> ELSE <<55296 + (cp - 65536) \div 1024, 56320 + ((cp - 65536) % 1024)>>

\* Mutant of Fits: a pair is begun when there is room for one unit only.
FitsOne(out, units, size) == Len(out) + 1 < size

Fits(out, units, size) == Len(out) + Len(units) < size

Decode(src, size, st) ==
  LET c == Utf8Next(src, st.at)
  IN  IF st.at > Len(src) \/ Len(st.out) + 1 >= size \/ ~Fits(st.out, Utf16(c.cp), size) THEN st
      ELSE [at |-> st.at + c.len, out |-> st.out \o Utf16(c.cp)]

Utf8ToWchar(src, size) ==
  LET scan[k \in 0 .. Len(src)] ==
        IF k = 0 THEN [at |-> 1, out |-> <<>>] ELSE Decode(src, size, scan[k - 1])
  IN  scan[Len(src)].out

-----------------------------------------------------------------------------
(* win_path_to_posix and posix_to_win_path.                                *)

Mapped(s, from, to) == [i \in 1 .. Len(s) |-> IF s[i] = from THEN to ELSE s[i]]

Skip(s, n) == SubSeq(s, n + 1, Len(s))

\* \\?\ and \\.\
Device(s) == At(s, 1) = Backslash /\ At(s, 2) = Backslash /\ At(s, 3) \in {63, 46} /\ At(s, 4) = Backslash

\* Mutant of Drive: only a small letter names a drive.
DriveSmall(s) == At(s, 1) \in 97 .. 122 /\ At(s, 2) = Colon

Drive(s) == LetterCh(At(s, 1)) /\ At(s, 2) = Colon

WinPathToPosix(s, size) ==
  LET bare == IF Device(s) THEN Skip(s, 4) ELSE s
      path == Cut(Mapped(IF Drive(bare) THEN Skip(bare, 2) ELSE bare, Backslash, SlashCh), size - 1)
  IN  IF path = <<>> THEN <<SlashCh>> ELSE path

PosixToWinPath(s, size) ==
  Cut((IF At(s, 1) = SlashCh THEN <<67, Colon>> ELSE <<>>) \o Mapped(s, SlashCh, Backslash), size - 1)

-----------------------------------------------------------------------------
\* Every byte that does not continue a character begins one that is encoded
\* as it should be and that no further byte continues.
ValidUtf8(s) ==
  \A i \in 1 .. Len(s) :
    LET c == Utf8Next(s, i)
    IN  s[i] \notin 128 .. 191 =>
          /\ i + c.len <= Len(s) + 1 /\ SubSeq(s, i, i + c.len - 1) = Utf8(c.cp)
          /\ At(s, i + c.len) \notin 128 .. 191

\* Strings end at their first 0.  posix_to_win_path writes nothing to buffers
\* of less than four places.
ASSUME TextAssumption ==
  /\ \A p \in PosixPaths : p \in Seq(1 .. 255) /\ At(p, 1) = SlashCh /\ ValidUtf8(p)
  /\ \A s \in WideStrings : s \in Seq(1 .. MaxUnit)
  /\ \A s \in ByteStrings : s \in Seq(1 .. 255)
  /\ \A r \in Rooms : r \in Nat /\ r >= 4

-----------------------------------------------------------------------------
\* A path of the system on its way to the program and back: GetCurrentDirectoryW,
\* say, and an open of what it returned.  A string of the program, or a name the
\* program never made, takes a part of the way.
Convert(from, to, result) ==
  /\ stage = from /\ stage' = to /\ str' = result
  /\ UNCHANGED <<kind, origin, room>>

TextNext ==
  \/ Convert("posix", "win", PosixToWinPath(str, room))
  \/ Convert("win", "wide", Utf8ToWchar(str, room))
  \/ Convert("wide", "utf8", WcharToUtf8(str, room))
  \/ kind = "path" /\ Convert("utf8", "there", WinPathToPosix(str, room))
  \/ kind # "path" /\ Convert("utf8", "back", Utf8ToWchar(str, room))

-----------------------------------------------------------------------------
(* Properties.                                                             *)

\* What is valid UTF-16: no surrogate without its partner.
WellFormed(s) ==
  \A i \in 1 .. Len(s) : High(s[i]) = Low(At(s, i + 1)) /\ (i = 1 => ~Low(s[1]))

\* A path without backslashes, in valid UTF-8, comes back to the system as it
\* was, if there is room for its longest form.
PathSurvives ==
  stage = "there" /\ Len(origin) + 6 < room /\ (\A i \in 1 .. Len(origin) : origin[i] # Backslash)
    => str = origin

\* A surrogate without its partner cannot be encoded and is replaced.
Alone(s, i) ==
  \/ High(s[i]) /\ ~Low(At(s, i + 1))
  \/ Low(s[i]) /\ ~High(At(s, i - 1))

Sound(s) == [i \in 1 .. Len(s) |-> IF Alone(s, i) THEN Replacement ELSE s[i]]

\* However short the buffers, none is overrun, what the program gets is valid
\* UTF-16, and what it passed comes back unchanged up to the cut, which splits
\* no pair; a surrogate alone is replaced.
WholeCharacters ==
  /\ <<kind, stage>> \notin {<<"path", "posix">>, <<"string", "wide">>, <<"bytes", "win">>} => Len(str) < room
  /\ stage = "back" \/ (stage = "wide" /\ kind # "string") => WellFormed(str)
  /\ stage = "back" /\ kind = "string" => str = Cut(Sound(origin), Len(str))
=============================================================================
