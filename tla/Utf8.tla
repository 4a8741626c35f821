-------------------------------- MODULE Utf8 --------------------------------
(***************************************************************************)
(* Strings of UTF-8 (picobase.c): sequences of bytes, ended by a zero that *)
(* is not part of the sequence.  Positions count from 0, as in the code.   *)
(* What the code does with a string that is not well-formed is part of     *)
(* this: words are cut by bytes before they get here.                      *)
(***************************************************************************)
EXTENDS Integers, Sequences, SequencesExt

CONSTANTS LowerTab, UpperTab      \* the letters with another case: functions on code points

Utf8MaxLen == 4                   \* PICOBASE_UTF8_MAXLEN
ByteAt(s, p) == IF p < Len(s) THEN s[p + 1] ELSE 0
Failed == -1
Wild == -2                        \* a read before the beginning of the string
Endless == << -3 >>               \* a loop that never ends

\* Mutant: no characters of four bytes.
DetUtf8LengthTo3(b) ==
  CASE b < 128 -> 1
    [] b >= 240 -> 0
    [] b >= 224 -> 3
    [] b >= 192 -> 2
    [] OTHER -> 0
DetUtf8Length(b) ==
  CASE b < 128 -> 1
    [] b >= 248 -> 0
    [] b >= 240 -> 4
    [] b >= 224 -> 3
    [] b >= 192 -> 2
    [] OTHER -> 0
Follows(b) == b \in 128 .. 191

\* picobase_utf8_length: the characters of well-formed bytes; the last character
\* may be incomplete.
Utf8Length(s) ==
  LET step(st, b) ==
        CASE ~st.ok -> st
          [] st.follow > 0 -> [st EXCEPT !.ok = Follows(b), !.follow = @ - 1]
          [] OTHER -> [ok |-> DetUtf8Length(b) > 0, follow |-> DetUtf8Length(b) - 1, len |-> st.len + 1]
      end == FoldLeft(step, [ok |-> TRUE, follow |-> 0, len |-> 0], s)
  IN IF end.ok THEN end.len ELSE -1

\* picobase_get_next_utf8charpos: the position behind the character at p. A byte
\* that begins no character has no length, and so is not passed.
NextCharPos(s, p) ==
  LET len == DetUtf8Length(ByteAt(s, p)) IN IF p + len > Len(s) THEN Failed ELSE p + len
NextChar(s, p) == SubSeq(s, p + 1, NextCharPos(s, p))

\* picobase_get_prev_utf8charpos: the character that ends before p, but not before
\* min. Positions are unsigned: from 0 the search goes on at the other end of memory.
PrevCharPos(s, min, p) ==
  LET back[i \in 1 .. Utf8MaxLen + 1] ==
        IF i > Utf8MaxLen THEN Failed
        ELSE IF p - i < 0 THEN Wild
        ELSE IF p - i < min THEN Failed
        ELSE IF DetUtf8Length(ByteAt(s, p - i)) = i THEN p - i ELSE back[i + 1]
  IN IF p = 0 THEN Failed ELSE back[1]

Utf8ToUtf32(c) ==
  CASE c[1] < 128 -> c[1]
    [] c[1] >= 248 -> 0
    [] c[1] >= 240 -> 262144 * (c[1] % 8) + 4096 * (c[2] % 64) + 64 * (c[3] % 64) + (c[4] % 64)
    [] c[1] >= 224 -> 4096 * (c[1] % 16) + 64 * (c[2] % 64) + (c[3] % 64)
    [] c[1] >= 192 -> 64 * (c[1] % 32) + (c[2] % 64)
    [] OTHER -> 0

Tail6(u) == 128 + (u % 64)
Utf32ToUtf8(u) ==
  CASE u < 128 -> << u >>
    [] u < 2048 -> << 192 + ((u \div 64) % 32), Tail6(u) >>
    [] u < 65536 -> << 224 + (u \div 4096), Tail6(u \div 64), Tail6(u) >>
    [] u < 1048576 -> << 240 + (u \div 262144), Tail6(u \div 4096), Tail6(u \div 64), Tail6(u) >>
    [] OTHER -> << >>

Lowercase(u) == IF u \in DOMAIN LowerTab THEN LowerTab[u] ELSE u
Uppercase(u) == IF u \in DOMAIN UpperTab THEN UpperTab[u] ELSE u

\* picobase_lowercase_utf8_str and picobase_uppercase_utf8_str: one character after
\* the other, as far as there is room; a byte that begins none is read again and
\* again. The last character of a string that ends in the middle of it is read
\* with what the buffer has behind the end: zero, for the first byte behind.
CharFrom(s, p) ==
  LET len == DetUtf8Length(ByteAt(s, p)) IN [i \in 1 .. len |-> ByteAt(s, p + i - 1)]
CaseStr(s, room, change(_)) ==
  LET rest[p \in 0 .. Len(s)] ==
        IF p = Len(s) THEN << >>
        ELSE IF DetUtf8Length(ByteAt(s, p)) = 0 THEN Endless
        ELSE LET next == IF NextCharPos(s, p) = Failed THEN Len(s) ELSE NextCharPos(s, p)
             IN IF rest[next] = Endless THEN Endless
                ELSE Utf32ToUtf8(change(Utf8ToUtf32(CharFrom(s, p)))) \o rest[next]
  IN IF rest[0] = Endless THEN Endless
     ELSE SubSeq(rest[0], 1, IF Len(rest[0]) < room THEN Len(rest[0]) ELSE room - 1)
LowercaseStr(s, room) == CaseStr(s, room, Lowercase)
UppercaseStr(s, room) == CaseStr(s, room, Uppercase)

\* picobase_is_utf8_uppercase and _lowercase, of a string no byte of which is lost
\* (they are endless as well then).
IsCase(s, change(_)) ==
  LET same[p \in 0 .. Len(s)] ==
        \/ p = Len(s)
        \/ /\ change(Utf8ToUtf32(CharFrom(s, p))) = Utf8ToUtf32(CharFrom(s, p))
           /\ same[IF NextCharPos(s, p) = Failed THEN Len(s) ELSE NextCharPos(s, p)]
  IN same[0]
IsUppercase(s) == IsCase(s, Uppercase)
IsLowercase(s) == IsCase(s, Lowercase)

(* The characters of a well-formed string are passed one by one, forwards   *)
(* and backwards, over the same positions, and their number is the length;  *)
(* a change of case changes no other character, and may be undone.  (What   *)
(* makes the bytes of a string a sequence of characters is said by the      *)
(* characters alone.)                                                       *)
Starts(chars) == [n \in 1 .. Len(chars) + 1 |-> Len(FlattenSeq(SubSeq(chars, 1, n - 1)))]
CharsWalked(points) ==
  LET chars == [n \in DOMAIN points |-> Utf32ToUtf8(points[n])]
      s == FlattenSeq(chars)
  IN /\ Utf8Length(s) = Len(chars)
     /\ \A n \in DOMAIN chars :
          /\ NextCharPos(s, Starts(chars)[n]) = Starts(chars)[n + 1]
          /\ PrevCharPos(s, 0, Starts(chars)[n + 1]) = Starts(chars)[n]
          /\ Utf8ToUtf32(NextChar(s, Starts(chars)[n])) = points[n]
     /\ LowercaseStr(s, 100) = FlattenSeq([n \in DOMAIN chars |-> Utf32ToUtf8(Lowercase(points[n]))])
     /\ IsLowercase(LowercaseStr(s, 100)) /\ IsUppercase(UppercaseStr(s, 100))
=============================================================================
