---------------------------- MODULE MC_Platform -----------------------------
(* The parts that are small and share no state in these modules: an execution *)
(* is one of one part, the others keep their initial state.                   *)
EXTENDS Lm61At, TcpRing, NmeaLine, IotList, IotTimer, RemLen,
        CloudConnect

VARIABLE part

vars == <<part, atVars, ringVars, nmeaVars, listVars, timerVars, length, cloudVars>>

Parts == {"at", "ring", "nmea", "list", "timer", "remLen", "connect"}

\* Only the part that moves starts in all of its initial states.
Init ==
  /\ part \in Parts
  /\ AtInit /\ NmeaInit
  /\ RingInit /\ (part = "ring" \/ zeros = {})
  /\ ListInit
  /\ TimerInit /\ (part = "timer" \/ (clock = 0 /\ ms = 0))
  /\ RemLenInit /\ (part = "remLen" \/ length = 0)
  /\ CloudInit /\ (part = "connect" \/ recv2 = <<"data", "data">>)

Next ==
  \/ part = "at" /\ AtNext
       /\ UNCHANGED <<part, ringVars, nmeaVars, listVars, timerVars, length, cloudVars>>
  \/ part = "ring" /\ RingNext
       /\ UNCHANGED <<part, atVars, nmeaVars, listVars, timerVars, length, cloudVars>>
  \/ part = "nmea" /\ NmeaNext
       /\ UNCHANGED <<part, atVars, ringVars, listVars, timerVars, length, cloudVars>>
  \/ part = "list" /\ ListNext
       /\ UNCHANGED <<part, atVars, ringVars, nmeaVars, timerVars, length, cloudVars>>
  \/ part = "timer" /\ TimerNext
       /\ UNCHANGED <<part, atVars, ringVars, nmeaVars, listVars, length, cloudVars>>
  \/ part = "connect" /\ CloudNext
       /\ UNCHANGED <<part, atVars, ringVars, nmeaVars, listVars, timerVars, length>>

Spec == Init /\ [][Next]_vars /\ WF_atVars(Driver)

\* The lengths where the number of digits changes or uint16_t wraps
Edges == UNION {{n - 1, n, n + 1} :
                  n \in {1, 128, 16384, 32768, 65536, 131072, 2097152, 2097151}}
           \cup {268435455, 65535 + 65536, 4097, 300}

\* Every part keeps its types.
TypeOK ==
  /\ AtTypeOK /\ RingTypeOK /\ NmeaTypeOK /\ ListTypeOK /\ TimerTypeOK /\ CloudTypeOK
=============================================================================
