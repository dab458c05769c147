------------------------------ MODULE CidRules ------------------------------
(***************************************************************************)
(* What cidparser.go does to the frames of the panels, and what the readers *)
(* of a rewritten frame cut out of it: extractDeviceID, the broadcaster of *)
(* main and the lists of events of the HTTP API all look at fixed places.  *)
(*                                                                         *)
(* A frame is a sequence of cells.  The 20 bytes of an event are 9 cells:  *)
(*   1     receiver  message[0:4]                                          *)
(*   2     line      message[4:7]                                          *)
(*   3..6  account   message[7:11], a cell per character                   *)
(*   7     code      message[11:15]                                        *)
(*   8     group     message[15:17]                                        *)
(*   9     zone      message[17:20]                                        *)
(* and every further byte is a cell.  Lengths are counted in cells.        *)
(***************************************************************************)
EXTENDS Integers, Sequences

EventLength == 9    \* requiredMessageLength and heartbeatLength
AccountMin == 2000
AccountMax == 2200
Terminator == "x14"

\* The receivers that occur, "5010" and "1010": the number and its first
\* character.
Receivers == {"5010", "1010"}
ReceiverNumber(c) == IF c = "5010" THEN 5010 ELSE 1010

\* message[0].  The cells of an account are one character each; no other cell
\* starts with what a rule asks for.
FirstChar(m) ==
  CASE m[1] = "5010" -> "5"
    [] m[1] = "1010" -> "1"
    [] OTHER -> m[1]

-----------------------------------------------------------------------------
(* Numbers as text.                                                        *)

Digits == <<"0", "1", "2", "3", "4", "5", "6", "7", "8", "9">>
IsDigit(c) == \E i \in 1 .. 10 : c = Digits[i]
DigitValue(c) == (CHOOSE i \in 1 .. 10 : c = Digits[i]) - 1
Signs == {"+", "-"}

\* strconv.Atoi of an account: digits, with a sign or without.
Unsigned(s) == IF s[1] \in Signs THEN Tail(s) ELSE s
IsNumber(s) == LET d == Unsigned(s)
               IN  d # <<>> /\ \A i \in 1 .. Len(d) : IsDigit(d[i])
Atoi(s) ==
  LET d == Unsigned(s)
      value[i \in 0 .. Len(d)] ==
        IF i = 0 THEN 0 ELSE 10 * value[i - 1] + DigitValue(d[i])
  IN  IF s[1] = "-" THEN -value[Len(d)] ELSE value[Len(d)]

\* The decimal digits of n, w of them.
Places == <<1, 10, 100, 1000, 10000>>
Decimal(n, w) == [i \in 1 .. w |-> Digits[((n \div Places[(w - i) + 1]) % 10) + 1]]

\* Mutant: "%d", without leading zeros.
FormatAccount_NoPadding(n) ==
  IF n < 0 THEN <<"-">> \o Decimal(-n, 3)
           ELSE Decimal(n, CHOOSE w \in 1 .. 5 : n < 10 ^ w /\ (w > 1 => n >= 10 ^ (w - 1)))

\* fmt.Sprintf("%04d", n): four characters, the sign included, or as many more
\* as n needs; one more is as far as the model goes.
FormatAccount(n) ==
  IF n < 0 THEN <<"-">> \o Decimal(-n, IF n > -1000 THEN 3 ELSE 4)
           ELSE Decimal(n, IF n < 10000 THEN 4 ELSE 5)

-----------------------------------------------------------------------------
(* The rules, a record of config.CIDRules.                                 *)

Account(m) == SubSeq(m, 3, 6)

\* Checked before the rules are looked at.  The last byte of the zone is free.
IsHeartBeat(m) ==
  /\ Len(m) = EventLength
  /\ SubSeq(m, 2, 8) = <<"   ", " ", " ", " ", " ", "    ", "@ ">>
  /\ m[9] \in {"   ", "  X"}
  /\ m[1] \in Receivers /\ ReceiverNumber(m[1]) \in 1000 .. 1999

IsMessageValid(m, rules) ==
  /\ m # <<>>
  /\ Len(m) = rules.ValidLength
  /\ FirstChar(m) = rules.RequiredPrefix

Shifted(n, rules) ==
  IF n \in AccountMin .. AccountMax THEN n + rules.AccNumAdd ELSE n

ChangeTestCode(code, rules) ==
  IF code \in DOMAIN rules.TestCodeMap THEN rules.TestCodeMap[code] ELSE code

\* ChangeAccountNumber returns an error for a frame that is too short or whose
\* account is no number.
CanChange(m) == Len(m) >= EventLength /\ IsNumber(Account(m))

\* It keeps what stands before the account and the 5 bytes behind the code, and
\* drops the rest.
ChangeAccountNumber(m, rules) ==
  SubSeq(m, 1, 2) \o FormatAccount(Shifted(Atoi(Account(m)), rules))
    \o <<ChangeTestCode(m[7], rules)>> \o SubSeq(m, 8, 9) \o <<Terminator>>

-----------------------------------------------------------------------------
(* The readers.                                                            *)

\* 0 when the account is no number.
ExtractDeviceID(e) == IF IsNumber(Account(e)) THEN Atoi(Account(e)) ELSE 0

\* Mutant: group and zone mixed up.
Cut_ZoneFirst(e) == [device |-> Account(e), code |-> e[7], group |-> e[9], zone |-> e[8]]

\* Data[7:11], [11:15], [15:17] and [17:20] of an event that has 20 bytes.
Cut(e) == [device |-> Account(e), code |-> e[7], group |-> e[8], zone |-> e[9]]
=============================================================================
