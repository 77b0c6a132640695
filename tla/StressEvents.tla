---------------------------- MODULE StressEvents ----------------------------
(***************************************************************************)
(* The crisis suite of a run with --failures: class StressEvents draws its *)
(* crises independently of one another, schedules what begins and what     *)
(* ends each of them, and the simulator fires the events by time.  Links   *)
(* and the switch that goes dark share net devices, and an event simply    *)
(* overwrites the error model of the devices it is about.                  *)
(*                                                                         *)
(* Times are hundredths of the measurement window, error rates per cent.   *)
(* The flash crowd only adds traffic and is left out.                      *)
(***************************************************************************)
EXTENDS Integers, Sequences, FiniteSets, SequencesExt

CONSTANTS NoLink,
          Link,     \* m_failureLinks
          Device,   \* CSMA net devices of the switches
          Ends,     \* link -> its devA and devB
          OnDark,   \* devices of the black-hole switch, {} if there is none
          Mortal,   \* killFn is given and the kill target exists
          Loss,     \* normalRate of a link
          Windows,  \* lengths the measurement window may have, in seconds
          Draws     \* what the generator may draw, -1 to 1 for low to high

ASSUME StressAssumption ==
  /\ Ends \in [Link -> Device \X Device]
  /\ \A l \in Link : Ends[l][1] # Ends[l][2]
  /\ \A k, l \in Link : k # l => {Ends[k][1], Ends[k][2]} \cap {Ends[l][1], Ends[l][2]} = {}
  /\ OnDark \in SUBSET Device /\ Mortal \in BOOLEAN
  /\ Loss \in [Link -> 0..29]
  /\ Windows \subseteq Nat \ {0} /\ Draws # {} /\ Draws \subseteq -1..1

VARIABLES
  now,      \* Simulator::Now
  pending,  \* scheduled events, in the order they were scheduled
  rate,     \* ErrorRate of the receive error model of a device
  killed,   \* ForceDeplete was called on the kill target
  drawn     \* history: the links drawn for the outage and for the flaps, when
            \* the outage ends, when the black hole begins and when it ends

stressVars == <<now, pending, rate, killed, drawn>>

Dark == 100  \* every packet is lost
Gray == 30

DevicesOf(l) == {Ends[l][1], Ends[l][2]}

\* The loss of a device without a crisis; ports of hosts have none.
Normal(d) == IF \E l \in Link : d \in DevicesOf(l)
             THEN Loss[CHOOSE l \in Link : d \in DevicesOf(l)] ELSE 0

-----------------------------------------------------------------------------
\* GetValue(lo, hi) of the generator, of which the ends and the middle are drawn.
Drawn(lo, hi) == {lo + ((d + 1) * (hi - lo)) \div 2 : d \in Draws}

Clamp(x, lo, hi) == IF x < lo THEN lo ELSE IF x > hi THEN hi ELSE x
AtMost(x, hi) == IF x > hi THEN hi ELSE x

\* Frac: a jittered moment of the window.
Frac(base, jitter, lo, hi) == {Clamp(x, lo, hi) : x \in Drawn(base - jitter, base + jitter)}

\* A duration in a window of w seconds.
Seconds(n, w) == (100 * n) \div w

\* An event: op on link l at time t, or on the switch if l is NoLink.
Ev(t, op, l, by) == [at |-> t, op |-> op, link |-> l, by |-> by]

\* Mutant of GrayFail: restored a half of the window later.
GrayFailLong ==
  IF Link = {} THEN {<<>>}
  ELSE {<<Ev(t, "Degrade", l, "gray"), Ev(t + 50, "BringUp", l, "gray")>> :
          l \in Link, t \in Frac(10, 5, 3, 30)}

\* What Schedule may draw and schedule for each of the crises, in its order.
GrayFail ==
  IF Link = {} THEN {<<>>}
  ELSE {<<Ev(t, "Degrade", l, "gray"), Ev(AtMost(t + 25, 45), "BringUp", l, "gray")>> :
          l \in Link, t \in Frac(10, 5, 3, 30)}

OutageOf(a, b, down, up) ==
  <<Ev(down, "BringDown", a, "outage"), Ev(down, "BringDown", b, "outage"),
    Ev(up, "BringUp", a, "outage"), Ev(up, "BringUp", b, "outage")>>

\* Mutant of Outage: the second BringUp names the first link again.
OutageTypo ==
  IF \A a, b, c \in Link : a = b \/ b = c \/ a = c THEN {<<>>}
  ELSE {[OutageOf(ab[1], ab[2], t, AtMost(t + 20, 85)) EXCEPT ![4].link = ab[1]] :
          ab \in {x \in Link \X Link : x[1] # x[2]}, t \in Frac(55, 8, 45, 70)}

\* Two distinct links, if there are three to draw from.
Outage ==
  IF \A a, b, c \in Link : a = b \/ b = c \/ a = c THEN {<<>>}
  ELSE {OutageOf(ab[1], ab[2], t, AtMost(t + 20, 85)) :
          ab \in {x \in Link \X Link : x[1] # x[2]}, t \in Frac(55, 8, 45, 70)}

Kill ==
  IF Mortal THEN {<<Ev(t, "ForceDeplete", NoLink, "kill")>> : t \in Frac(65, 7, 50, 80)}
  ELSE {<<>>}

\* Mutant of BlackHole: it begins while the flaps may still go on.
BlackHoleSoon(w) ==
  IF OnDark = {} THEN {<<>>}
  ELSE {<<Ev(t, "BlackHoleOn", NoLink, "hole"), Ev(t + d, "BlackHoleOff", NoLink, "hole")>> :
          t \in Frac(65, 5, 55, 72), d \in Drawn(Seconds(4, w), Seconds(7, w))}

BlackHole(w) ==
  IF OnDark = {} THEN {<<>>}
  ELSE {<<Ev(t, "BlackHoleOn", NoLink, "hole"), Ev(t + d, "BlackHoleOff", NoLink, "hole")>> :
          t \in Frac(85, 5, 75, 92), d \in Drawn(Seconds(4, w), Seconds(7, w))}

\* ScheduleFlap: down and up again every period, as long as it is up by end.
ScheduleFlap(l, start, end, down, period) ==
  LET n == Cardinality({k \in 0..100 : start + k * period + down < end})
      t(k) == start + ((k - 1) \div 2) * period
  IN  [k \in 1..2 * n |-> IF k % 2 = 1 THEN Ev(t(k), "BringDown", l, "flap")
                          ELSE Ev(t(k) + down, "BringUp", l, "flap")]

Flap(w) ==
  IF \A a, b \in Link : a = b THEN {<<NoLink, <<>>>>}
  ELSE {<<l, ScheduleFlap(l, t, 70, d, p)>> :
          l \in Link, t \in Frac(30, 5, 20, 40),
          d \in Drawn(Seconds(2, w), Seconds(4, w)), p \in Drawn(Seconds(8, w), Seconds(14, w))}

\* What the properties need to know of an outage, a black hole and the flaps.
DrawnOf(o, h, f) ==
  [outage |-> {o[i].link : i \in DOMAIN o}, flap |-> f[1],
   up  |-> IF o = <<>> THEN 0 ELSE o[4].at,
   on  |-> IF h = <<>> THEN 0 ELSE h[1].at,
   off |-> IF h = <<>> THEN 0 ELSE h[2].at]

\* Schedule, which is called before the simulator starts, and the end of the
\* run that the runner schedules after it.
Schedule ==
  \E w \in Windows :
  \E g \in GrayFail, o \in Outage, k \in Kill, h \in BlackHole(w), f \in Flap(w) :
    /\ pending = g \o o \o k \o h \o f[2] \o <<Ev(100, "Stop", NoLink, "runner")>>
    /\ drawn = DrawnOf(o, h, f)

StressInit ==
  /\ now = 0 /\ killed = FALSE
  /\ rate = [d \in Device |-> Normal(d)]
  /\ Schedule

-----------------------------------------------------------------------------
\* The simulator fires the earliest event, the first scheduled of them.
Due(i) == \A j \in DOMAIN pending :
            pending[i].at < pending[j].at \/ (pending[i].at = pending[j].at /\ i <= j)

Fire(op, i) ==
  /\ pending[i].op = op /\ Due(i)
  /\ now' = pending[i].at
  /\ pending' = RemoveAt(pending, i)
  /\ UNCHANGED drawn

SetErrorRate(D, r) == rate' = [d \in Device |-> IF d \in D THEN r ELSE rate[d]]

BringDown(i) ==
  /\ Fire("BringDown", i)
  /\ SetErrorRate(DevicesOf(pending[i].link), Dark)
  /\ UNCHANGED killed

BringUp(i) ==
  /\ Fire("BringUp", i)
  /\ SetErrorRate(DevicesOf(pending[i].link), Loss[pending[i].link])
  /\ UNCHANGED killed

Degrade(i) ==
  /\ Fire("Degrade", i)
  /\ SetErrorRate(DevicesOf(pending[i].link), Gray)
  /\ UNCHANGED killed

BlackHoleOn(i) ==
  /\ Fire("BlackHoleOn", i)
  /\ SetErrorRate(OnDark, Dark)
  /\ UNCHANGED killed

\* Mutant of BlackHoleOff: ports without a failure link are forgotten.
BlackHoleOffLinks(i) ==
  /\ Fire("BlackHoleOff", i)
  /\ SetErrorRate({d \in OnDark : \E l \in Link : d \in DevicesOf(l)}, 0)
  /\ UNCHANGED killed

BlackHoleOff(i) ==
  /\ Fire("BlackHoleOff", i)
  /\ SetErrorRate(OnDark, 0)
  /\ UNCHANGED killed

\* killFn: the controller of the switch empties its battery (module Energy).
ForceDeplete(i) ==
  /\ Fire("ForceDeplete", i)
  /\ killed' = TRUE
  /\ UNCHANGED rate

\* Simulator::Stop: what is scheduled for later never happens.
Stop(i) ==
  /\ pending[i].op = "Stop" /\ Due(i)
  /\ now' = pending[i].at
  /\ pending' = <<>>
  /\ UNCHANGED <<rate, killed, drawn>>

StressNext ==
  \E i \in DOMAIN pending :
    \/ Degrade(i) \/ BringDown(i) \/ BringUp(i)
    \/ BlackHoleOn(i) \/ BlackHoleOff(i)
    \/ ForceDeplete(i) \/ Stop(i)

StressSpec == StressInit /\ [][StressNext]_stressVars

\* The simulator always gets to the next event.
StressFairSpec == StressSpec /\ WF_stressVars(StressNext)

-----------------------------------------------------------------------------
Scheduled(by, op, l) ==
  \E i \in DOMAIN pending : pending[i].by = by /\ pending[i].op = op /\ pending[i].link = l

\* The gray failure, the outage or the black hole has begun and not ended.
InForce(by, l, begin, end) == Scheduled(by, end, l) /\ ~Scheduled(by, begin, l)

(* A device that loses more than its link does by itself is still to be      *)
(* restored by an event that is scheduled for it, until the run stops:       *)
(* whatever crises met on a link, none leaves a fault behind.                *)
EveryFaultEnds ==
  \A d \in Device : rate[d] > Normal(d) /\ now < 100 =>
    \E i \in DOMAIN pending :
      \/ pending[i].op = "BringUp" /\ d \in DevicesOf(pending[i].link)
      \/ pending[i].op = "BlackHoleOff" /\ d \in OnDark

(* Crises are drawn without regard to one another, yet only a flap or the    *)
(* end of the black hole cuts short what a crisis did to a link: gray        *)
(* failures and outages elsewhere last for the time they were drawn for.     *)
LinksStayHit ==
  \A l \in Link \ {drawn.flap} :
    /\ InForce("gray", l, "Degrade", "BringUp") => \A d \in DevicesOf(l) : rate[d] = Gray
    /\ InForce("outage", l, "BringDown", "BringUp") =>
         \A d \in DevicesOf(l) \ OnDark : rate[d] = Dark

(* A switch that went dark stays so on every port, but for the ports of      *)
(* links whose outage ended since: no flap or gray failure lights it.        *)
StaysDark ==
  InForce("hole", NoLink, "BlackHoleOn", "BlackHoleOff") =>
    \A d \in OnDark : rate[d] < Dark =>
      \E l \in drawn.outage :
        /\ d \in DevicesOf(l) /\ ~Scheduled("outage", "BringUp", l)
        /\ drawn.on <= drawn.up

(* When the run is over every device loses what its link loses by itself, or *)
(* nothing if it belongs to the switch that was dark.  Only a black hole     *)
(* that was to last beyond the end of the run leaves its ports dark.         *)
LinksRecover ==
  <>[](\A d \in Device :
         \/ rate[d] = Normal(d)
         \/ d \in OnDark /\ rate[d] = IF drawn.off <= 100 THEN 0 ELSE Dark)
=============================================================================
