---------------------------- MODULE EventStream ----------------------------
(***************************************************************************)
(* What the sensors HAL promises the framework about one connection's      *)
(* events: those it delivers are events that were posted, each once, in    *)
(* the order they were posted.  Events can be lost, a run at a time.       *)
(***************************************************************************)
EXTENDS Integers, Sequences

VARIABLES sent,       \* events posted so far; they are numbered from 1
          transit,    \* the numbers of those on their way, oldest first
          delivered   \* the numbers of those the framework has read

streamVars == <<sent, transit, delivered>>

Increasing(s) == \A i \in 1..Len(s) - 1 : s[i] < s[i + 1]

StreamInit == sent = 0 /\ transit = <<>> /\ delivered = <<>>

\* A batch is posted: it, or what there is room for, follows all the rest.
Send ==
  /\ sent' > sent
  /\ Len(transit') >= Len(transit)
  /\ SubSeq(transit', 1, Len(transit)) = transit
  /\ LET added == SubSeq(transit', Len(transit) + 1, Len(transit'))
     IN  Increasing(added) /\ \A i \in 1..Len(added) : added[i] \in sent + 1..sent'
  /\ UNCHANGED delivered

\* A run of events is lost on its way.
Lose ==
  /\ \E i, j \in 0..Len(transit) :
       i < j /\ transit' = SubSeq(transit, 1, i) \o SubSeq(transit, j + 1, Len(transit))
  /\ UNCHANGED <<sent, delivered>>

\* The framework reads the oldest events.
Deliver ==
  /\ \E n \in 1..Len(transit) :
       /\ delivered' = delivered \o SubSeq(transit, 1, n)
       /\ transit' = SubSeq(transit, n + 1, Len(transit))
  /\ UNCHANGED sent

StreamNext == Send \/ Lose \/ Deliver

StreamSpec == StreamInit /\ [][StreamNext]_streamVars

\* What the promise amounts to: no event is delivered twice or out of order,
\* and none that was not posted.
DeliveredInOrder ==
  Increasing(delivered \o transit) /\ \A i \in 1..Len(delivered) : delivered[i] \in 1..sent
=============================================================================
