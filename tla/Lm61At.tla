------------------------------ MODULE Lm61At --------------------------------
(***************************************************************************)
(* The AT commands of Drivers/BSP/lm61.c: LM61_sendAT with its callers     *)
(* at_common and LM61_sendAT_with_times, LM61_sendData and LM61_RecvData,  *)
(* and the procedures made of them.                                        *)
(*                                                                         *)
(* The modem answers a command with lines, in order, as late as it likes,  *)
(* or not at all.  Nothing is thrown away before a command is sent: the    *)
(* first lines that a poll of the UART finds are taken for its answer.     *)
(***************************************************************************)
EXTENDS Naturals, SequencesExt, FiniteSetsExt

CONSTANTS
  Open,         \* number of commands in LM61_socketOpen
  Start,        \* number of commands in LM61_start_transparent_mode
  Times,        \* attempts of LM61_sendAT_with_times
  Repeats,      \* attempts of LM61_socketClose and LM61_healthCheck
  MaxSends,     \* bound: commands sent, but for those at start-up
  MaxLate       \* bound: lines not yet read when the modem answers once more

ASSUME AtAssumption ==
  /\ Open \in Nat \ {0} /\ Start \in Nat \ {0} /\ Times \in Nat \ {0}
  /\ Repeats \in Nat \ {0} /\ MaxSends \in Nat /\ MaxLate \in Nat

VARIABLES
  atPc,         \* "idle", "send", "wait" or "halted"
  call,         \* the procedure that runs, or ran last
  cmd,          \* its commands done
  tries,        \* attempts made at the command
  coming, rx,   \* lines on the way from the modem; unread in the UART's ring
  recvBuffer,   \* what LM61_sendData and LM61_RecvData read so far
  sends,        \* number of commands sent; the n-th has id n
  result,       \* what the procedure returned
  first,        \* history: the first id of this call
  accepted,     \* history: ids of this call the modem answers with OK
  clean,        \* history: no earlier result leaves lines of its command behind
  cleanStart,   \* history: clean when the call began
  foreign,      \* history: a result had lines of another command though clean held
  read          \* history: the id whose data LM61_socketRead returned last

atVars == <<atPc, call, cmd, tries, coming, rx, recvBuffer, sends, result,
            first, accepted, clean, cleanStart, foreign, read>>

Results == {"SUCCESS", "FAILED", "INVALID_PARMS", "TIMEOUT", "RESULT_ERROR", "none"}
Calls == {"open", "repeat", "start", "end", "boot", "socketRead", "socketWrite"}
\* The commands a procedure sends when all goes well, and the most it sends.
Commands(c) == CASE c = "open" -> Open [] c = "start" -> Start [] c = "boot" -> 3 [] OTHER -> 1
MostSends(c) ==
  CASE c = "repeat" -> Repeats [] c \in {"start", "end", "boot"} -> Commands(c) * Times
    [] OTHER -> Commands(c)

Ids == 1 .. Max({MaxSends, MostSends("boot")})
Lines == [line : {"echo", "AT^SISHR=0", "AT^SISH=0", "DATA", "OTHER", "OK", "ERROR"},
          id : Ids]

AtTypeOK ==
  /\ atPc \in {"idle", "send", "wait", "halted"} /\ call \in Calls
  /\ cmd \in 0 .. Max({Open, Start, 3}) /\ tries \in 0 .. Max({Times, Repeats})
  /\ {coming, rx, recvBuffer} \subseteq Seq(Lines)
  /\ sends \in {0} \cup Ids /\ first - 1 \in {0} \cup Ids
  /\ result \in Results /\ {clean, cleanStart, foreign} \subseteq BOOLEAN
  /\ accepted \subseteq Ids /\ read \in {0} \cup Ids

AtInit ==
  /\ atPc = "idle" /\ call = "repeat" /\ cmd = 0 /\ tries = 0
  /\ coming = <<>> /\ rx = <<>> /\ recvBuffer = <<>> /\ sends = 0 /\ result = "none"
  /\ first = 1 /\ accepted = {} /\ clean = TRUE /\ cleanStart = TRUE /\ foreign = FALSE /\ read = 0

\* How the next command of a call reads its answer
Style ==
  CASE call \in {"open", "repeat"} -> "at_common"
    [] call \in {"start", "end"} \/ (call = "boot" /\ cmd = 0) -> "with_times"
    [] call = "boot" /\ cmd > 0 -> "matchstr"
    [] OTHER -> call

-----------------------------------------------------------------------------
\* A procedure of the driver is called; device_check_and_init is the first.
CallAt ==
  /\ atPc = "idle"
  /\ \E c \in Calls :
       /\ IF c = "boot" THEN sends = 0 ELSE sends + MostSends(c) <= MaxSends
       /\ call' = c
  /\ cmd' = 0 /\ tries' = 0 /\ atPc' = "send"
  /\ first' = sends + 1 /\ cleanStart' = clean /\ accepted' = {}
  /\ UNCHANGED <<coming, rx, recvBuffer, sends, result, clean, foreign, read>>

Echo(style) ==
  CASE style = "socketRead" -> "AT^SISHR=0" [] style = "socketWrite" -> "AT^SISH=0"
    [] OTHER -> "echo"

\* What the modem says to a command after its echo
Answers(style) ==
  {<<"OK">>, <<"ERROR">>} \cup
  (CASE style = "matchstr" -> {<<"DATA", "OK">>, <<"OTHER", "OK">>}
     [] style = "socketRead" -> {<<"DATA", "OK">>}
     [] OTHER -> {})

\* recvBuffer is not cleared.
SendAt_KeepsBuffer ==
  /\ atPc = "send" /\ atPc' = "wait"
  /\ sends' = sends + 1
  /\ \/ UNCHANGED <<coming, accepted>>
     \/ /\ Len(coming) + Len(rx) <= MaxLate
        /\ \E a \in Answers(Style) :
             LET lines == <<Echo(Style)>> \o a
             IN  /\ coming' = coming \o
                      [n \in DOMAIN lines |-> [line |-> lines[n], id |-> sends + 1]]
                 /\ UNCHANGED accepted
  /\ UNCHANGED <<call, cmd, tries, rx, recvBuffer, result, first, clean, cleanStart, foreign,
                 read>>

\* memset of recvBuffer, Uart6_SendMsg; the modem answers or does not.
SendAt ==
  /\ atPc = "send" /\ atPc' = "wait"
  /\ sends' = sends + 1 /\ recvBuffer' = <<>>
  /\ \/ UNCHANGED <<coming, accepted>>
     \/ /\ Len(coming) + Len(rx) <= MaxLate
        /\ \E a \in Answers(Style) :
             LET lines == <<Echo(Style)>> \o a
             IN  /\ coming' = coming \o
                      [n \in DOMAIN lines |-> [line |-> lines[n], id |-> sends + 1]]
                 /\ accepted' = IF "OK" \in Range(a) THEN accepted \cup {sends + 1}
                                                     ELSE accepted
  /\ UNCHANGED <<call, cmd, tries, rx, result, first, clean, cleanStart, foreign, read>>

\* A line arrives, whenever it likes.
Arrive ==
  /\ coming # <<>>
  /\ rx' = Append(rx, Head(coming)) /\ coming' = Tail(coming)
  /\ UNCHANGED <<atPc, call, cmd, tries, recvBuffer, sends, result, first, accepted,
                 clean, cleanStart, foreign, read>>

-----------------------------------------------------------------------------
(* What the lines of one poll mean *)

Has(slice, line) == \E n \in DOMAIN slice : slice[n].line = line

Common_EchoIsEnough(slice) ==
  IF Len(slice) < 2 THEN "SUCCESS"
  ELSE CASE slice[2].line = "OK" -> "SUCCESS" [] slice[2].line = "ERROR" -> "FAILED"
         [] OTHER -> "INVALID_PARMS"

\* at_common: the second token decides; with one line only it is NULL.
Common(slice) ==
  IF Len(slice) < 2 THEN "INVALID_PARMS"
  ELSE CASE slice[2].line = "OK" -> "SUCCESS" [] slice[2].line = "ERROR" -> "FAILED"
         [] OTHER -> "INVALID_PARMS"

\* LM61_sendAT_with_times: strstr looks for OK, then for matchstr, anywhere.
WithTimes(slice, match) ==
  CASE ~Has(slice, "OK") -> "FAILED"
    [] Has(slice, "OK") /\ match /\ ~Has(slice, "DATA") -> "RESULT_ERROR"
    [] OTHER -> "SUCCESS"

\* LM61_socketRead takes the first data after the first line, and the line
\* after it has to be OK.
DataAt(slice) == {n \in 2 .. Len(slice) : slice[n].line = "DATA"}
SocketRead(slice) ==
  IF /\ DataAt(slice) # {}
     /\ Min(DataAt(slice)) < Len(slice)
     /\ slice[Min(DataAt(slice)) + 1].line = "OK"
  THEN "SUCCESS" ELSE "FAILED"

-----------------------------------------------------------------------------
(* How a procedure goes on after a command *)

Return(rc) == atPc' = "idle" /\ result' = rc /\ UNCHANGED <<cmd, tries>>

\* A command is over: the next one, or the end, where
\* LM61_start_transparent_mode and LM61_close_transparent_mode have success
\* whatever happened.
NextCommand(rc) ==
  /\ cmd' = cmd + 1 /\ tries' = 0
  /\ IF cmd + 1 = Commands(call)
     THEN /\ atPc' = "idle"
          /\ result' = IF call \in {"start", "end"} THEN "SUCCESS" ELSE rc
     ELSE /\ atPc' = "send" /\ UNCHANGED result

TryAgain == atPc' = "send" /\ tries' = tries + 1 /\ UNCHANGED <<cmd, result>>

\* LM61_socketOpen: the first failure is returned.
AfterOpen(rc) == IF rc = "SUCCESS" THEN NextCommand(rc) ELSE Return(rc)

\* LM61_socketClose, LM61_healthCheck: the last attempt fails whatever it gets.
AfterRepeat(rc) ==
  IF tries + 1 >= Repeats THEN Return("FAILED")
  ELSE IF rc = "SUCCESS" THEN Return(rc) ELSE TryAgain

\* LM61_sendAT_with_times in LM61_start_transparent_mode, which goes on after
\* a failure, and in device_check_and_init, which does after its third command.
AfterTimes(rc) ==
  IF rc \in {"TIMEOUT", "RESULT_ERROR"} /\ tries + 1 < Times THEN TryAgain
  ELSE IF call \in {"start", "end"} \/ cmd = 2 \/ rc = "SUCCESS" THEN NextCommand(rc) ELSE Return(rc)

After(rc) ==
  CASE call = "open" -> AfterOpen(rc) [] call = "repeat" -> AfterRepeat(rc)
    [] call \in {"start", "end", "boot"} -> AfterTimes(rc) [] OTHER -> Return(rc)

\* Whether a result says that all lines of the command were taken
Conclusive(style, rc) ==
  \/ rc = "SUCCESS" /\ style # "socketWrite"
  \/ rc = "RESULT_ERROR"
  \/ rc = "FAILED" /\ style = "at_common"

Answered(rc, slice) ==
  /\ After(rc)
  /\ foreign' = (foreign \/ (clean /\ \E n \in DOMAIN slice : slice[n].id # sends))
  /\ clean' = (clean /\ Conclusive(Style, rc))
  /\ UNCHANGED <<call, sends, first, accepted, cleanStart>>

-----------------------------------------------------------------------------
(* Polling.  Uart6_RcvMsg gives the unread lines, or those before the end of *)
(* the ring.                                                                 *)

\* LM61_sendAT: the first poll that finds anything
PollAt ==
  /\ atPc = "wait" /\ Style \in {"at_common", "with_times", "matchstr"}
  /\ \E n \in 1 .. Len(rx) :
       LET slice == SubSeq(rx, 1, n)
       IN  /\ rx' = SubSeq(rx, n + 1, Len(rx))
           /\ Answered(IF Style = "at_common" THEN Common(slice)
                       ELSE WithTimes(slice, Style = "matchstr"), slice)
  /\ UNCHANGED <<coming, recvBuffer, read>>

\* strncpy into recvBuffer, over what an earlier poll left there
Copied(slice) == slice \o SubSeq(recvBuffer, Len(slice) + 1, Len(recvBuffer))

\* LM61_sendData and LM61_RecvData go on while recvBuffer has no echo of a
\* command of this kind, be it of an earlier one.
PollData ==
  /\ atPc = "wait" /\ Style \in {"socketRead", "socketWrite"}
  /\ \E n \in 1 .. Len(rx) :
       LET text == Copied(SubSeq(rx, 1, n))
       IN  /\ rx' = SubSeq(rx, n + 1, Len(rx))
           /\ recvBuffer' = text
           /\ \/ /\ ~Has(text, Echo(Style))
                 /\ UNCHANGED <<atPc, call, cmd, tries, sends, result, first, accepted, clean,
                                cleanStart, foreign, read>>
              \/ /\ Style = "socketWrite" /\ Has(text, Echo(Style))
                 /\ Answered("SUCCESS", text)
                 /\ UNCHANGED read
              \/ /\ Style = "socketRead" /\ Has(text, Echo(Style)) /\ ~Has(text, "ERROR")
                 /\ Answered(SocketRead(text), text)
                 /\ read' = IF SocketRead(text) = "SUCCESS"
                            THEN text[Min(DataAt(text))].id ELSE read
              \/ /\ Style = "socketRead" /\ Has(text, Echo(Style)) /\ Has(text, "ERROR")
                 /\ atPc' = "halted"
                 /\ UNCHANGED <<call, cmd, tries, sends, result, first, accepted, clean,
                                cleanStart, foreign, read>>
  /\ UNCHANGED coming

TimeoutAt_Waits ==
  /\ atPc = "wait" /\ Style \in {"socketRead", "socketWrite"}
  /\ Answered(IF Style = "socketRead" THEN "FAILED" ELSE "TIMEOUT", <<>>)
  /\ UNCHANGED <<coming, rx, recvBuffer, read>>

\* LM61_sendAT saw nothing at any poll; the loops of the other two may end
\* with lines unread.  LM61_socketRead finds no answer in recvBuffer then.
TimeoutAt ==
  /\ atPc = "wait"
  /\ rx = <<>> \/ Style \in {"socketRead", "socketWrite"}
  /\ Answered(IF Style = "socketRead" THEN "FAILED" ELSE "TIMEOUT", <<>>)
  /\ UNCHANGED <<coming, rx, recvBuffer, read>>

Driver == SendAt \/ PollAt \/ PollData \/ TimeoutAt

AtNext == CallAt \/ Driver \/ Arrive
AtSpec == AtInit /\ [][AtNext]_atVars /\ WF_atVars(Driver)

-----------------------------------------------------------------------------
\* As long as no earlier result was a TIMEOUT, an INVALID_PARMS, the FAILED of
\* LM61_sendAT_with_times or of a read, or any of a write, a result is made of
\* the lines of the very command it is returned for (lm61.c:329-343).
OwnAnswer == ~foreign

\* If nothing was late before the call, LM61_socketOpen succeeds only if the
\* modem said OK to every one of its commands (lm61.c:134-169).
OpenIsOpen ==
  call = "open" /\ atPc = "idle" /\ result = "SUCCESS" /\ cleanStart
    => first .. sends \subseteq accepted /\ sends - first + 1 = Open

\* An answer is what the modem said to what was asked.
AnswersCorrect == OwnAnswer /\ OpenIsOpen

\* LM61_socketRead returns the modem's data in the order it came, none twice,
\* however late the answers are and wherever the polls cut them.
ReadInOrder ==
  [][PollData /\ call = "socketRead" /\ atPc' = "idle" /\ result' = "SUCCESS"
       => read' > read]_atVars

\* Every call comes to its end, whatever the modem answers or does not.
AtReturns == atPc # "idle" ~> atPc \in {"idle", "halted"}
=============================================================================
