---------------------------- MODULE FaultProofs ----------------------------
(***************************************************************************)
(* Proofs about the links of a run in which things fail: what the sweep of *)
(* probes discovers while ports come and go (module Discovery), and what the*)
(* crises of a stress run do to links, whatever is drawn (StressEvents).   *)
(*                                                                         *)
(* The sweep enters only through what it may do to the link database: which*)
(* ports it skips does not matter here.                                    *)
(***************************************************************************)
EXTENDS Discovery, LinkMapProofs, StressEvents, FiniteSetTheorems, SequenceTheorems

DiscoveryInv == LinkInv /\ TypeOK /\ OneEndThere

LEMMA InitInv == Init => DiscoveryInv
<1> SUFFICES ASSUME Init PROVE DiscoveryInv
  OBVIOUS
<1>1. LinkInv
  BY LinkInitInv DEF Init
<1>2. TypeOK
  <2>1. LinkTypeOK
    BY <1>1 DEF LinkInv
  <2>2. swept \in BOOLEAN
    BY Zenon DEF Init
  <2>3. flaps \in 0..MaxFlaps
    BY DiscoveryAssumption DEF Init
  <2>4. /\ connected \in SUBSET Switch /\ asked \in SUBSET connected
        /\ ports \in SUBSET Cabled /\ absent \in SUBSET Flaky
        /\ scheduled \in SUBSET Swept /\ probes \in SUBSET Cabled
    BY DEF Init
  <2> QED
    BY <2>1, <2>2, <2>3, <2>4 DEF TypeOK
<1>3. OneEndThere
  BY DEF Init, OneEndThere
<1> QED
  BY <1>1, <1>2, <1>3 DEF DiscoveryInv

(* Whatever neither deletes a port nor adds a link keeps the invariant.      *)
LEMMA QuietInv ==
  ASSUME DiscoveryInv, UNCHANGED linkVars, absent' \subseteq absent, TypeOK'
  PROVE  DiscoveryInv'
<1>1. LinkInv'
  BY DEF DiscoveryInv, LinkInv, linkVars, LinkTypeOK, LinksSymmetric,
     GraphMatchesLinks, RoutingOverCables, StillLinked
<1>2. OneEndThere'
  BY DEF DiscoveryInv, OneEndThere, linkVars
<1> QED
  BY <1>1, <1>2 DEF DiscoveryInv

(* A probe that comes in.  The port it comes in on is there, so the link it  *)
(* brings has an end that is.                                                *)
LEMMA ProbeInv ==
  ASSUME DiscoveryInv, NEW p \in Cabled, HandleLldpPacket(p)
  PROVE  DiscoveryInv'
<1> USE DEF portVars
<1>1. Peer[p] \in Cabled
  BY CableAssumption DEF Cabled
<1>2. TypeOK' \/ ~LinkTypeOK'
  BY <1>1 DEF HandleLldpPacket, DiscoveryInv, TypeOK
<1>3. CASE UNCHANGED linkVars
  <2>1. LinkTypeOK'
    BY <1>3 DEF linkVars, LinkTypeOK, DiscoveryInv, LinkInv
  <2> QED
    BY <1>2, <1>3, <2>1, QuietInv DEF HandleLldpPacket
<1>4. CASE AddLink(p, Peer[p]) /\ Peer[p] \notin absent
  <2>1. LinkInv'
    BY <1>4, AddLinkInv DEF DiscoveryInv
  <2>2. links' = links \/ links' = [links EXCEPT ![p] = Peer[p], ![Peer[p]] = p]
    BY <1>4 DEF AddLink, RecordLink, linkVars
  <2>3. OneEndThere'
    <3> SUFFICES ASSUME NEW r \in Cabled, links'[r] # None
                 PROVE  ~({r, Peer[r]} \subseteq absent)
      BY DEF HandleLldpPacket, OneEndThere
    <3>1. r \in {p, Peer[p]} \/ links[r] # None
      BY <1>1, <2>2, CableAssumption DEF DiscoveryInv, LinkInv, LinkTypeOK, Cabled
    <3> QED
      BY <1>4, <3>1, CableAssumption DEF DiscoveryInv, OneEndThere, Cabled
  <2> QED
    BY <1>2, <2>1, <2>3 DEF DiscoveryInv, LinkInv
<1> QED
  BY <1>3, <1>4 DEF HandleLldpPacket

(* A port that goes takes its link along, at both ends.                      *)
LEMMA DeletedInv ==
  ASSUME DiscoveryInv, NEW p \in Cabled, PortDeleted(p)
  PROVE  DiscoveryInv'
<1> USE DEF probeVars
<1>1. p \in Port /\ RemovePort(p)
  BY CableAssumption DEF PortDeleted, Cabled
<1>2. LinkInv'
  BY <1>1, RemovePortInv DEF DiscoveryInv
<1>3. TypeOK'
  BY <1>2, DiscoveryAssumption DEF PortDeleted, DiscoveryInv, TypeOK, LinkInv
<1>4. /\ links'[p] = None
      /\ \A r \in Port : links'[r] # None => links[r] # None
  BY <1>1, CableAssumption DEF RemovePort, EraseLink, BothEnds, linkVars, Cabled
<1>5. OneEndThere'
  <2> SUFFICES ASSUME NEW r \in Cabled, links'[r] # None, {r, Peer[r]} \subseteq absent'
               PROVE  FALSE
    BY DEF OneEndThere
  <2>1. links[r] # None /\ r # p
    BY <1>4, CableAssumption DEF Cabled
  <2>2. Peer[r] # p
    BY <1>2, <1>4, CableAssumption DEF LinkInv, LinksSymmetric, Cabled
  <2>3. {r, Peer[r]} \subseteq absent
    BY <2>1, <2>2 DEF PortDeleted
  <2> QED
    BY <2>1, <2>3 DEF DiscoveryInv, OneEndThere
<1> QED
  BY <1>2, <1>3, <1>5 DEF DiscoveryInv

(* The invariant survives every step.                                        *)
LEMMA NextInv == DiscoveryInv /\ [Next]_vars => DiscoveryInv'
<1> SUFFICES ASSUME DiscoveryInv, [Next]_vars PROVE DiscoveryInv'
  OBVIOUS
<1> USE DEF linkVars, switchVars, probeVars, portVars
<1>0. TypeOK /\ LinkTypeOK
  BY DEF DiscoveryInv, TypeOK
<1>1. CASE UNCHANGED vars
  BY <1>0, <1>1, QuietInv DEF vars, TypeOK, LinkTypeOK
<1>2. ASSUME NEW s \in Switch, HandshakeSuccessful(s) PROVE DiscoveryInv'
  BY <1>0, <1>2, QuietInv DEF HandshakeSuccessful, TypeOK, LinkTypeOK
<1>3. ASSUME NEW s \in Switch, HandlePortDescReply(s) PROVE DiscoveryInv'
  BY <1>0, <1>3, QuietInv DEF HandlePortDescReply, TypeOK, LinkTypeOK, PortsOf
<1>4. CASE TriggerLldp
  BY <1>0, <1>4, QuietInv DEF TriggerLldp, TypeOK, LinkTypeOK
<1>5. ASSUME NEW p \in Cabled, SendSingleLldp(p) \/ ProbeLost(p) PROVE DiscoveryInv'
  BY <1>0, <1>5, QuietInv DEF SendSingleLldp, ProbeLost, TypeOK, LinkTypeOK
<1>6. ASSUME NEW p \in Cabled, PortAdded(p) PROVE DiscoveryInv'
  BY <1>0, <1>6, QuietInv DEF PortAdded, TypeOK, LinkTypeOK
<1> QED
  BY <1>1, <1>2, <1>3, <1>4, <1>5, <1>6, ProbeInv, DeletedInv DEF Next

(* Types of every state, the link database's included.                       *)
THEOREM DiscoveryTypes == Spec => []TypeOK
<1>1. DiscoveryInv => TypeOK
  BY DEF DiscoveryInv
<1> QED
  BY <1>1, InitInv, NextInv, PTL DEF Spec

(* However probes and port changes overtake each other, a recorded link has  *)
(* an end that exists.                                                       *)
THEOREM LinksHaveAnEnd == Spec => []OneEndThere
<1>1. DiscoveryInv => OneEndThere
  BY DEF DiscoveryInv
<1> QED
  BY <1>1, InitInv, NextInv, PTL DEF Spec

-----------------------------------------------------------------------------
Causes == {"gray", "outage", "kill", "hole", "flap", "runner"}
Ops == {"Degrade", "BringDown", "BringUp", "BlackHoleOn", "BlackHoleOff", "ForceDeplete", "Stop"}
Event == [at : Int, op : Ops, link : Link \cup {NoLink}, by : Causes]

\* What a crisis schedules, on what, and the part of the window it keeps to.
Timely(e) ==
  \/ e.by = "gray" /\ e.op \in {"Degrade", "BringUp"} /\ e.link \in Link /\ e.at <= 45
  \/ e.by = "outage" /\ e.op \in {"BringDown", "BringUp"} /\ e.link \in Link /\ e.at >= 47
  \/ e.by = "flap" /\ e.op \in {"BringDown", "BringUp"} /\ e.link \in Link /\ e.at < 70
  \/ e.by = "hole" /\ e.op \in {"BlackHoleOn", "BlackHoleOff"} /\ e.link = NoLink /\ e.at >= 80
  \/ e.by = "kill" /\ e.op = "ForceDeplete"
  \/ e.by = "runner" /\ e.op = "Stop" /\ e.at = 100

Later(s, j, i) == s[i].at < s[j].at \/ (s[i].at = s[j].at /\ i < j)

\* What begins is followed by what ends it.
Followed(s) ==
  \A i \in DOMAIN s :
    /\ s[i].op \in {"Degrade", "BringDown"} =>
         \E j \in DOMAIN s : Later(s, j, i) /\ s[j].op = "BringUp" /\ s[j].link = s[i].link
    /\ s[i].op = "BlackHoleOn" =>
         \E j \in DOMAIN s : Later(s, j, i) /\ s[j].op = "BlackHoleOff"

\* But for the flaps no crisis does a thing twice to a link.
Once(s) ==
  \A i, j \in DOMAIN s :
    s[i].by # "flap" /\ s[i].by = s[j].by /\ s[i].op = s[j].op /\ s[i].link = s[j].link => i = j

\* A list of events of the crises in B, F being the link that flaps.
Suite(s, F, B) ==
  /\ s \in Seq(Event)
  /\ \A i \in DOMAIN s :
       Timely(s[i]) /\ s[i].by \in B /\ (s[i].by = "flap" => s[i].link = F)
  /\ Followed(s) /\ Once(s)

\* Nothing has begun: what ends it is not scheduled alone.
Whole(s) ==
  \A i \in DOMAIN s :
    /\ s[i].by \in {"gray", "outage"} /\ s[i].op = "BringUp" =>
         \E j \in DOMAIN s :
           /\ s[j].by = s[i].by /\ s[j].link = s[i].link
           /\ s[j].op \in {"Degrade", "BringDown"}
    /\ s[i].by = "hole" /\ s[i].op = "BlackHoleOff" =>
         \E j \in DOMAIN s : s[j].by = "hole" /\ s[j].op = "BlackHoleOn"

(* Two lists of events one after the other.                                  *)
LEMMA Appended ==
  ASSUME NEW s \in Seq(Event), NEW t \in Seq(Event)
  PROVE  /\ s \o t \in Seq(Event)
         /\ \A i \in DOMAIN s : i \in DOMAIN (s \o t) /\ (s \o t)[i] = s[i]
         /\ \A i \in DOMAIN t : i + Len(s) \in DOMAIN (s \o t) /\ (s \o t)[i + Len(s)] = t[i]
         /\ \A k \in DOMAIN (s \o t) :
              \/ k \in DOMAIN s /\ (s \o t)[k] = s[k]
              \/ k - Len(s) \in DOMAIN t /\ (s \o t)[k] = t[k - Len(s)]
OBVIOUS

(* Two lists of whole crises by different causes make one.                  *)
LEMMA SuiteAppended ==
  ASSUME NEW s, NEW t, NEW F, NEW B, NEW C,
         Suite(s, F, B), Suite(t, F, C), B \cap C = {}
  PROVE  Suite(s \o t, F, B \cup C)
<1> DEFINE u == s \o t
           n == Len(s)
<1>1. s \in Seq(Event) /\ t \in Seq(Event) /\ n \in Nat
  BY DEF Suite
<1>2. /\ u \in Seq(Event)
      /\ \A i \in DOMAIN s : i \in DOMAIN u /\ u[i] = s[i]
      /\ \A i \in DOMAIN t : i + n \in DOMAIN u /\ u[i + n] = t[i]
      /\ \A k \in DOMAIN u :
           \/ k \in DOMAIN s /\ u[k] = s[k]
           \/ k - n \in DOMAIN t /\ u[k] = t[k - n]
  BY <1>1, Appended, Zenon
<1>3. DOMAIN s \subseteq Nat /\ DOMAIN t \subseteq Nat /\ DOMAIN u \subseteq Nat
  BY <1>1, <1>2
<1> HIDE DEF u, n
<1>4. \A i \in DOMAIN u :
        Timely(u[i]) /\ u[i].by \in B \cup C /\ (u[i].by = "flap" => u[i].link = F)
  <2> SUFFICES ASSUME NEW i \in DOMAIN u
               PROVE  Timely(u[i]) /\ u[i].by \in B \cup C /\ (u[i].by = "flap" => u[i].link = F)
    OBVIOUS
  <2>1. CASE i \in DOMAIN s /\ u[i] = s[i]
    <3>1. Timely(s[i]) /\ s[i].by \in B /\ (s[i].by = "flap" => s[i].link = F)
      BY <2>1 DEF Suite
    <3> QED BY <2>1, <3>1, Zenon
  <2>2. CASE i - n \in DOMAIN t /\ u[i] = t[i - n]
    <3>1. Timely(t[i - n]) /\ t[i - n].by \in C /\ (t[i - n].by = "flap" => t[i - n].link = F)
      BY <2>2 DEF Suite
    <3> QED BY <2>2, <3>1, Zenon
  <2> QED BY <1>2, <2>1, <2>2
<1>5. Followed(u)
  <2> SUFFICES ASSUME NEW i \in DOMAIN u
               PROVE  /\ u[i].op \in {"Degrade", "BringDown"} =>
                           \E j \in DOMAIN u : Later(u, j, i) /\ u[j].op = "BringUp" /\ u[j].link = u[i].link
                      /\ u[i].op = "BlackHoleOn" =>
                           \E j \in DOMAIN u : Later(u, j, i) /\ u[j].op = "BlackHoleOff"
    BY DEF Followed
  <2>1. CASE i \in DOMAIN s /\ u[i] = s[i]
    <3>1. /\ s[i].op \in {"Degrade", "BringDown"} =>
               \E j \in DOMAIN s : Later(s, j, i) /\ s[j].op = "BringUp" /\ s[j].link = s[i].link
          /\ s[i].op = "BlackHoleOn" =>
               \E j \in DOMAIN s : Later(s, j, i) /\ s[j].op = "BlackHoleOff"
      BY <2>1 DEF Suite, Followed
    <3>2. \A j \in DOMAIN s : j \in DOMAIN u /\ u[j] = s[j] /\ (Later(s, j, i) => Later(u, j, i))
      BY <1>2, <2>1 DEF Later
    <3> QED BY <2>1, <3>1, <3>2
  <2>2. CASE i - n \in DOMAIN t /\ u[i] = t[i - n]
    <3> DEFINE k == i - n
    <3>1. /\ t[k].op \in {"Degrade", "BringDown"} =>
               \E j \in DOMAIN t : Later(t, j, k) /\ t[j].op = "BringUp" /\ t[j].link = t[k].link
          /\ t[k].op = "BlackHoleOn" =>
               \E j \in DOMAIN t : Later(t, j, k) /\ t[j].op = "BlackHoleOff"
      BY <2>2 DEF Suite, Followed
    <3>2. \A j \in DOMAIN t : /\ j + n \in DOMAIN u /\ u[j + n] = t[j]
                              /\ (Later(t, j, k) => Later(u, j + n, i))
      <4> SUFFICES ASSUME NEW j \in DOMAIN t PROVE Later(t, j, k) => Later(u, j + n, i)
        BY <1>2
      <4>1. u[j + n] = t[j] /\ u[i] = t[k]
        BY <1>2, <2>2
      <4>2. j < k => j + n < i
        BY <1>1, <1>3, <2>2
      <4>3. k < j => i < j + n
        BY <1>1, <1>3, <2>2
      <4> QED BY <4>1, <4>2, <4>3 DEF Later
    <3>3. u[i] = t[k]
      BY <2>2
    <3> HIDE DEF k
    <3> QED BY <3>1, <3>2, <3>3
  <2> QED BY <1>2, <2>1, <2>2
<1>6. Once(u)
  <2> SUFFICES ASSUME NEW i \in DOMAIN u, NEW j \in DOMAIN u, u[i].by # "flap",
                      u[i].by = u[j].by, u[i].op = u[j].op, u[i].link = u[j].link
               PROVE  i = j
    BY DEF Once
  <2>1. CASE i \in DOMAIN s /\ u[i] = s[i] /\ j \in DOMAIN s /\ u[j] = s[j]
    BY <2>1 DEF Suite, Once
  <2>2. CASE i - n \in DOMAIN t /\ u[i] = t[i - n] /\ j - n \in DOMAIN t /\ u[j] = t[j - n]
    <3>1. i - n = j - n
      BY <2>2 DEF Suite, Once
    <3> QED BY <1>1, <1>3, <3>1
  <2>3. \A a \in DOMAIN s, b \in DOMAIN t : s[a].by # t[b].by
    BY DEF Suite
  <2> QED BY <1>2, <2>1, <2>2, <2>3
<1> QED
  BY <1>2, <1>4, <1>5, <1>6 DEF Suite, u

(* The same, when the second cause is alone on its list.                    *)
LEMMA WholeAppended ==
  ASSUME NEW s \in Seq(Event), NEW t \in Seq(Event), Whole(s), Whole(t)
  PROVE  Whole(s \o t)
<1> DEFINE u == s \o t
           n == Len(s)
<1>2. /\ \A i \in DOMAIN s : i \in DOMAIN u /\ u[i] = s[i]
      /\ \A i \in DOMAIN t : i + n \in DOMAIN u /\ u[i + n] = t[i]
      /\ \A k \in DOMAIN u :
           \/ k \in DOMAIN s /\ u[k] = s[k]
           \/ k - n \in DOMAIN t /\ u[k] = t[k - n]
  BY Appended, Zenon
<1> HIDE DEF u, n
<1>3. Whole(u)
  BY <1>2 DEF Whole
<1> QED BY <1>3 DEF u

(* RemoveAt takes one event out and keeps the others in their order.         *)
LEMMA Removed ==
  ASSUME NEW s \in Seq(Event), NEW i \in DOMAIN s
  PROVE  /\ RemoveAt(s, i) \in Seq(Event)
         /\ Len(RemoveAt(s, i)) = Len(s) - 1
         /\ \A k \in DOMAIN RemoveAt(s, i) :
              RemoveAt(s, i)[k] = s[IF k < i THEN k ELSE k + 1]
<1> DEFINE a == SubSeq(s, 1, i - 1)
           b == SubSeq(s, i + 1, Len(s))
<1>1. i \in 1..Len(s) /\ Len(s) \in Nat
  OBVIOUS
<1>2. a \in Seq(Event) /\ Len(a) = i - 1 /\ \A k \in 1..(i - 1) : a[k] = s[k]
  BY <1>1
<1>3. b \in Seq(Event) /\ Len(b) = Len(s) - i /\ \A k \in 1..(Len(s) - i) : b[k] = s[k + i]
  BY <1>1
<1> HIDE DEF a, b
<1>4. a \o b \in Seq(Event) /\ Len(a \o b) = Len(s) - 1
  BY <1>1, <1>2, <1>3
<1>5. ASSUME NEW k \in 1..(Len(s) - 1)
      PROVE  (a \o b)[k] = s[IF k < i THEN k ELSE k + 1]
  <2>1. CASE k < i
    BY <1>1, <1>2, <1>3, <2>1
  <2>2. CASE ~(k < i)
    <3>1. (a \o b)[k] = b[k - (i - 1)]
      BY <1>1, <1>2, <1>3, <2>2
    <3>2. k - (i - 1) \in 1..(Len(s) - i)
      BY <1>1, <2>2
    <3> QED BY <1>1, <1>3, <2>2, <3>1, <3>2
  <2> QED BY <2>1, <2>2
<1>6. RemoveAt(s, i) = a \o b
  BY DEF RemoveAt, a, b
<1>7. DOMAIN (a \o b) = 1..(Len(s) - 1)
  BY <1>4
<1> QED BY <1>4, <1>5, <1>6, <1>7

(* What is left of a list of events when the earliest is taken out.          *)
LEMMA Kept ==
  ASSUME NEW s \in Seq(Event), NEW i \in DOMAIN s
  PROVE  LET t == RemoveAt(s, i)
             new(j) == IF j < i THEN j ELSE j - 1
         IN  /\ \A k \in DOMAIN t : \E j \in DOMAIN s : j # i /\ new(j) = k /\ t[k] = s[j]
             /\ \A j \in DOMAIN s : j # i => new(j) \in DOMAIN t /\ t[new(j)] = s[j]
             /\ \A j, l \in DOMAIN s : j # i /\ l # i => (new(j) < new(l) <=> j < l)
             /\ \A j, l \in DOMAIN s : j # i /\ l # i /\ new(j) = new(l) => j = l
<1> DEFINE t == RemoveAt(s, i)
           new(j) == IF j < i THEN j ELSE j - 1
           old(k) == IF k < i THEN k ELSE k + 1
<1>1. /\ t \in Seq(Event) /\ Len(t) = Len(s) - 1
      /\ \A k \in DOMAIN t : t[k] = s[old(k)]
  BY Removed
<1>2. DOMAIN s = 1..Len(s) /\ Len(s) \in Nat /\ DOMAIN t = 1..(Len(s) - 1)
  BY <1>1
<1> HIDE DEF t
<1>3. \A k \in DOMAIN t : old(k) \in DOMAIN s /\ old(k) # i /\ new(old(k)) = k
  BY <1>2
<1>4. \A j \in DOMAIN s : j # i => new(j) \in DOMAIN t /\ old(new(j)) = j
  BY <1>2
<1>5. \A j, l \in DOMAIN s : j # i /\ l # i => (new(j) < new(l) <=> j < l)
  BY <1>2
<1>6. \A j, l \in DOMAIN s : j # i /\ l # i /\ new(j) = new(l) => j = l
  BY <1>2
<1>7. \A k \in DOMAIN t : \E j \in DOMAIN s : j # i /\ new(j) = k /\ t[k] = s[j]
  BY <1>1, <1>3
<1>8. \A j \in DOMAIN s : j # i => new(j) \in DOMAIN t /\ t[new(j)] = s[j]
  BY <1>1, <1>4
<1> QED BY <1>5, <1>6, <1>7, <1>8 DEF t

First(s, i) == \A j \in DOMAIN s : s[i].at < s[j].at \/ (s[i].at = s[j].at /\ i <= j)

(* Taking out the earliest event leaves every beginning with its end.        *)
LEMMA SuiteRemoved ==
  ASSUME NEW s, NEW F, NEW B, Suite(s, F, B), NEW i \in DOMAIN s, First(s, i)
  PROVE  Suite(RemoveAt(s, i), F, B)
<1> DEFINE t == RemoveAt(s, i)
           new(j) == IF j < i THEN j ELSE j - 1
<1>1. s \in Seq(Event)
  BY DEF Suite
<1>2. t \in Seq(Event)
  BY <1>1, Removed
<1>3. /\ \A k \in DOMAIN t : \E j \in DOMAIN s : j # i /\ new(j) = k /\ t[k] = s[j]
      /\ \A j \in DOMAIN s : j # i => new(j) \in DOMAIN t /\ t[new(j)] = s[j]
      /\ \A j, l \in DOMAIN s : j # i /\ l # i => (new(j) < new(l) <=> j < l)
      /\ \A j, l \in DOMAIN s : j # i /\ l # i /\ new(j) = new(l) => j = l
  BY <1>1, Kept
<1> HIDE DEF t, new
<1>4. \A j \in DOMAIN s : s[j].at \in Int /\ j \in Int
  <2> TAKE j \in DOMAIN s
  <2>1. s[j] \in Event /\ j \in Int
    BY <1>1
  <2> QED BY <2>1 DEF Event
<1>5. \A k \in DOMAIN t :
        Timely(t[k]) /\ t[k].by \in B /\ (t[k].by = "flap" => t[k].link = F)
  <2> TAKE k \in DOMAIN t
  <2>1. PICK j \in DOMAIN s : t[k] = s[j]
    BY <1>3
  <2>2. Timely(s[j]) /\ s[j].by \in B /\ (s[j].by = "flap" => s[j].link = F)
    BY DEF Suite
  <2> QED BY <2>1, <2>2, Zenon
<1>6. Followed(t)
  <2> SUFFICES ASSUME NEW k \in DOMAIN t
               PROVE  /\ t[k].op \in {"Degrade", "BringDown"} =>
                           \E j \in DOMAIN t : Later(t, j, k) /\ t[j].op = "BringUp" /\ t[j].link = t[k].link
                      /\ t[k].op = "BlackHoleOn" =>
                           \E j \in DOMAIN t : Later(t, j, k) /\ t[j].op = "BlackHoleOff"
    BY DEF Followed
  <2>1. PICK l \in DOMAIN s : l # i /\ new(l) = k /\ t[k] = s[l]
    BY <1>3
  <2>2. ASSUME NEW j \in DOMAIN s, Later(s, j, l)
        PROVE  new(j) \in DOMAIN t /\ t[new(j)] = s[j] /\ Later(t, new(j), k)
    <3>1. j # i
      BY <1>4, <2>1, <2>2 DEF First, Later
    <3>2. t[new(j)] = s[j] /\ new(j) \in DOMAIN t /\ (l < j => k < new(j))
      BY <1>3, <2>1, <3>1
    <3> QED BY <2>1, <2>2, <3>2 DEF Later
  <2>3. /\ s[l].op \in {"Degrade", "BringDown"} =>
             \E j \in DOMAIN s : Later(s, j, l) /\ s[j].op = "BringUp" /\ s[j].link = s[l].link
        /\ s[l].op = "BlackHoleOn" =>
             \E j \in DOMAIN s : Later(s, j, l) /\ s[j].op = "BlackHoleOff"
    BY DEF Suite, Followed
  <2> QED BY <2>1, <2>2, <2>3
<1>7. Once(t)
  <2> SUFFICES ASSUME NEW k \in DOMAIN t, NEW l \in DOMAIN t, t[k].by # "flap",
                      t[k].by = t[l].by, t[k].op = t[l].op, t[k].link = t[l].link
               PROVE  k = l
    BY DEF Once
  <2>1. PICK a \in DOMAIN s : a # i /\ new(a) = k /\ t[k] = s[a]
    BY <1>3
  <2>2. PICK b \in DOMAIN s : b # i /\ new(b) = l /\ t[l] = s[b]
    BY <1>3
  <2>3. a = b
    BY <2>1, <2>2 DEF Suite, Once
  <2> QED BY <2>1, <2>2, <2>3
<1> QED
  BY <1>2, <1>5, <1>6, <1>7 DEF Suite, t

-----------------------------------------------------------------------------
\* What the crises draw.

(* A quotient by two, rounded down.                                          *)
LEMMA DivBetween ==
  ASSUME NEW a \in Nat
  PROVE  a \div 2 \in 0..a
OBVIOUS

(* What the generator draws is between the ends it was given.                *)
LEMMA DrawnBetween ==
  ASSUME NEW lo \in Int, NEW hi \in Int, lo <= hi, NEW x \in Drawn(lo, hi)
  PROVE  x \in lo..hi
<1>1. PICK d \in Draws : x = lo + ((d + 1) * (hi - lo)) \div 2
  BY DEF Drawn
<1>2. d \in {-1, 0, 1}
  BY StressAssumption
<1> DEFINE w == hi - lo
<1>3. w \in Nat
  OBVIOUS
<1>4. CASE d = -1
  BY <1>1, <1>4
<1>5. CASE d = 0
  <2>1. x = lo + w \div 2
    BY <1>1, <1>5
  <2> QED BY <1>3, <2>1, DivBetween
<1>6. CASE d = 1
  <2>1. (d + 1) * (hi - lo) = 2 * w
    BY <1>3, <1>6
  <2>2. (2 * w) \div 2 = w
    BY <1>3
  <2> QED BY <1>1, <2>1, <2>2
<1> QED BY <1>2, <1>4, <1>5, <1>6

(* More seconds take a larger part of the window, none a negative one.        *)
LEMMA SecondsGrow ==
  ASSUME NEW m \in Nat, NEW n \in Nat, m <= n, NEW w \in Nat \ {0}
  PROVE  Seconds(m, w) \in Nat /\ Seconds(n, w) \in Nat /\ Seconds(m, w) <= Seconds(n, w)
<1> DEFINE a == 100 * m
           b == 100 * n
           p == a \div w
           q == b \div w
<1>2. w \in Nat /\ w > 0 /\ a \in Nat /\ b \in Nat /\ a <= b
  OBVIOUS
<1> HIDE DEF a, b
<1>3. /\ p \in Int /\ q \in Int
      /\ w * p <= a /\ a < w * (p + 1)
      /\ w * q <= b /\ b < w * (q + 1)
  BY <1>2
<1> HIDE DEF p, q
<1>4. p >= 0 /\ q >= 0
  <2>1. ASSUME NEW r \in Int, r < 0 PROVE w * (r + 1) <= 0
    BY <1>2, <2>1
  <2> QED BY <1>2, <1>3, <2>1
<1>5. p <= q
  <2> SUFFICES ASSUME q < p PROVE FALSE
    BY <1>3
  <2>1. w * (q + 1) <= w * p
    BY <1>2, <1>3
  <2> QED BY <1>2, <1>3, <2>1
<1> QED
  BY <1>3, <1>4, <1>5 DEF Seconds, a, b, p, q


(* A jittered moment stays between its limits, and within the jitter if the  *)
(* limits leave room for it.                                                 *)
LEMMA FracBetween ==
  ASSUME NEW base \in Int, NEW jitter \in Nat, NEW lo \in Int, NEW hi \in Int, lo <= hi,
         NEW t \in Frac(base, jitter, lo, hi)
  PROVE  /\ t \in lo..hi
         /\ base - jitter <= hi => base - jitter <= t
<1>1. PICK x \in Drawn(base - jitter, base + jitter) : t = Clamp(x, lo, hi)
  BY DEF Frac
<1>2. x \in (base - jitter)..(base + jitter)
  BY DrawnBetween
<1> QED
  BY <1>1, <1>2 DEF Clamp

(* A pair of events, what begins and what ends.                              *)
LEMMA PairSuite ==
  ASSUME NEW F, NEW a \in Event, NEW b \in Event, Timely(a), Timely(b),
         a.by = b.by, a.by # "flap", a.at <= b.at, a.link = b.link,
         \/ a.op = "Degrade" /\ b.op = "BringUp"
         \/ a.op = "BlackHoleOn" /\ b.op = "BlackHoleOff"
  PROVE  Suite(<<a, b>>, F, {a.by}) /\ Whole(<<a, b>>)
<1> DEFINE s == <<a, b>>
<1>1. s \in Seq(Event) /\ DOMAIN s = 1..2 /\ s[1] = a /\ s[2] = b
  OBVIOUS
<1> HIDE DEF s
<1>2. Later(s, 2, 1)
  BY <1>1 DEF Later, Event
<1>3. Followed(s)
  BY <1>1, <1>2 DEF Followed
<1>4. Once(s) /\ Whole(s)
  BY <1>1 DEF Once, Whole
<1>5. \A i \in DOMAIN s : i = 1 \/ i = 2
  BY <1>1
<1>6. \A i \in DOMAIN s : Timely(s[i]) /\ s[i].by \in {a.by} /\ (s[i].by = "flap" => s[i].link = F)
  BY <1>1, <1>5, Zenon
<1> QED
  BY <1>1, <1>3, <1>4, <1>6 DEF Suite, s

(* A crisis that is not drawn schedules nothing.                            *)
LEMMA EmptySuite ==
  ASSUME NEW F, NEW B
  PROVE  Suite(<<>>, F, B) /\ Whole(<<>>)
BY DEF Suite, Whole, Followed, Once

(* What Ev builds is an event.                                               *)
LEMMA EvIsEvent ==
  ASSUME NEW t \in Int, NEW op \in Ops, NEW l \in Link \cup {NoLink}, NEW by \in Causes
  PROVE  /\ Ev(t, op, l, by) \in Event
         /\ Ev(t, op, l, by).at = t /\ Ev(t, op, l, by).op = op
         /\ Ev(t, op, l, by).link = l /\ Ev(t, op, l, by).by = by
BY DEF Ev, Event

(* What each of the crises schedules begins in its part of the window and   *)
(* ends in it: the gray failure,                                             *)
LEMMA GraySuite ==
  ASSUME NEW F, NEW g \in GrayFail
  PROVE  Suite(g, F, {"gray"}) /\ Whole(g)
<1>1. CASE Link = {}
  BY <1>1, EmptySuite DEF GrayFail
<1>2. CASE Link # {}
  <2>1. PICK l \in Link, t \in Frac(10, 5, 3, 30) :
          g = <<Ev(t, "Degrade", l, "gray"), Ev(AtMost(t + 25, 45), "BringUp", l, "gray")>>
    BY <1>2 DEF GrayFail
  <2>2. t \in 3..30
    <3> DEFINE b == 10  j == 5  lo == 3  hi == 30
    <3>1. b \in Int /\ j \in Nat /\ lo \in Int /\ hi \in Int /\ lo <= hi /\ t \in Frac(b, j, lo, hi)
      BY <2>1
    <3> HIDE DEF b, j, lo, hi
    <3>2. t \in lo..hi /\ (b - j <= hi => b - j <= t)
      BY <3>1, FracBetween
    <3> QED BY <3>2 DEF b, j, lo, hi
  <2> DEFINE u == AtMost(t + 25, 45)
             a == Ev(t, "Degrade", l, "gray")
             b == Ev(u, "BringUp", l, "gray")
  <2>3. u \in Int /\ t <= u /\ u <= 45
    BY <2>2 DEF AtMost
  <2> HIDE DEF u
  <2>4. a \in Event /\ a.at = t /\ a.op = "Degrade" /\ a.link = l /\ a.by = "gray"
    BY <2>2, EvIsEvent DEF Ops, Causes
  <2>5. b \in Event /\ b.at = u /\ b.op = "BringUp" /\ b.link = l /\ b.by = "gray"
    BY <2>3, EvIsEvent DEF Ops, Causes
  <2>6. g = <<a, b>>
    BY <2>1 DEF u
  <2> HIDE DEF a, b
  <2>7. Timely(a) /\ Timely(b)
    BY <2>2, <2>3, <2>4, <2>5 DEF Timely
  <2>8. Suite(<<a, b>>, F, {a.by}) /\ Whole(<<a, b>>)
    BY <2>3, <2>4, <2>5, <2>7, PairSuite
  <2> QED BY <2>4, <2>6, <2>8
<1> QED BY <1>1, <1>2

(* the black hole,                                                           *)
LEMMA HoleSuite ==
  ASSUME NEW F, NEW w \in Nat \ {0}, NEW h \in BlackHole(w)
  PROVE  Suite(h, F, {"hole"}) /\ Whole(h)
<1>1. CASE OnDark = {}
  BY <1>1, EmptySuite DEF BlackHole
<1>2. CASE OnDark # {}
  <2>1. PICK t \in Frac(85, 5, 75, 92), d \in Drawn(Seconds(4, w), Seconds(7, w)) :
          h = <<Ev(t, "BlackHoleOn", NoLink, "hole"), Ev(t + d, "BlackHoleOff", NoLink, "hole")>>
    BY <1>2 DEF BlackHole
  <2>2. t \in 75..92 /\ 80 <= t
    <3> DEFINE b == 85  j == 5  lo == 75  hi == 92
    <3>1. b \in Int /\ j \in Nat /\ lo \in Int /\ hi \in Int /\ lo <= hi /\ t \in Frac(b, j, lo, hi)
      BY <2>1
    <3> HIDE DEF b, j, lo, hi
    <3>2. t \in lo..hi /\ (b - j <= hi => b - j <= t)
      BY <3>1, FracBetween
    <3> QED BY <3>2 DEF b, j, lo, hi
  <2>3. d \in Nat
    <3>1. Seconds(4, w) \in Nat /\ Seconds(7, w) \in Nat /\ Seconds(4, w) <= Seconds(7, w)
      BY SecondsGrow
    <3> QED BY <3>1, DrawnBetween
  <2> DEFINE u == t + d
             a == Ev(t, "BlackHoleOn", NoLink, "hole")
             b == Ev(u, "BlackHoleOff", NoLink, "hole")
  <2>31. u \in Int /\ t <= u
    BY <2>2, <2>3
  <2> HIDE DEF u
  <2>4. a \in Event /\ a.at = t /\ a.op = "BlackHoleOn" /\ a.link = NoLink /\ a.by = "hole"
    BY <2>2, EvIsEvent DEF Ops, Causes
  <2>5. b \in Event /\ b.at = u /\ b.op = "BlackHoleOff" /\ b.link = NoLink /\ b.by = "hole"
    BY <2>31, EvIsEvent DEF Ops, Causes
  <2>6. h = <<a, b>>
    BY <2>1 DEF u
  <2> HIDE DEF a, b
  <2>7. Timely(a) /\ Timely(b)
    BY <2>2, <2>31, <2>4, <2>5 DEF Timely
  <2>8. Suite(<<a, b>>, F, {a.by}) /\ Whole(<<a, b>>)
    BY <2>31, <2>4, <2>5, <2>7, PairSuite
  <2> QED BY <2>4, <2>6, <2>8
<1> QED BY <1>1, <1>2

(* a crisis of a single event,                                               *)
LEMMA SingleSuite ==
  ASSUME NEW F, NEW e \in Event, Timely(e), e.by \in {"kill", "runner"}
  PROVE  Suite(<<e>>, F, {e.by}) /\ Whole(<<e>>)
<1> DEFINE s == <<e>>
<1>1. s \in Seq(Event) /\ DOMAIN s = {1} /\ s[1] = e
  OBVIOUS
<1> HIDE DEF s
<1>2. e.op \in {"ForceDeplete", "Stop"}
  BY DEF Timely
<1>3. Followed(s) /\ Once(s) /\ Whole(s)
  BY <1>1, <1>2 DEF Followed, Once, Whole
<1>4. \A i \in DOMAIN s : Timely(s[i]) /\ s[i].by \in {e.by} /\ (s[i].by = "flap" => s[i].link = F)
  BY <1>1, Zenon
<1> QED
  BY <1>1, <1>3, <1>4 DEF Suite, s

(* the kill among them,                                                      *)
LEMMA KillSuite ==
  ASSUME NEW F, NEW k \in Kill
  PROVE  Suite(k, F, {"kill"}) /\ Whole(k)
<1>1. CASE ~Mortal
  BY <1>1, EmptySuite DEF Kill
<1>2. CASE Mortal
  <2>1. PICK t \in Frac(65, 7, 50, 80) : k = <<Ev(t, "ForceDeplete", NoLink, "kill")>>
    BY <1>2 DEF Kill
  <2>2. t \in Int
    BY FracBetween
  <2> DEFINE e == Ev(t, "ForceDeplete", NoLink, "kill")
  <2>3. e \in Event /\ e.op = "ForceDeplete" /\ e.by = "kill"
    BY <2>2, EvIsEvent DEF Ops, Causes
  <2> HIDE DEF e
  <2>4. Timely(e)
    BY <2>3 DEF Timely
  <2> QED BY <2>1, <2>3, <2>4, SingleSuite DEF e
<1> QED BY <1>1, <1>2

(* the outage of two links,                                                  *)
LEMMA OutageSuite ==
  ASSUME NEW F, NEW o \in Outage
  PROVE  Suite(o, F, {"outage"}) /\ Whole(o)
<1>1. CASE \A a, b, c \in Link : a = b \/ b = c \/ a = c
  BY <1>1, EmptySuite DEF Outage
<1>2. CASE ~(\A a, b, c \in Link : a = b \/ b = c \/ a = c)
  <2>1. PICK ab \in {x \in Link \X Link : x[1] # x[2]}, t \in Frac(55, 8, 45, 70) :
          o = OutageOf(ab[1], ab[2], t, AtMost(t + 20, 85))
    BY <1>2 DEF Outage
  <2>2. t \in 45..70 /\ 47 <= t
    <3> DEFINE b == 55  j == 8  lo == 45  hi == 70
    <3>1. b \in Int /\ j \in Nat /\ lo \in Int /\ hi \in Int /\ lo <= hi /\ t \in Frac(b, j, lo, hi)
      BY <2>1
    <3> HIDE DEF b, j, lo, hi
    <3>2. t \in lo..hi /\ (b - j <= hi => b - j <= t)
      BY <3>1, FracBetween
    <3> QED BY <3>2 DEF b, j, lo, hi
  <2> DEFINE u == AtMost(t + 20, 85)
             l == ab[1]
             m == ab[2]
             a == Ev(t, "BringDown", l, "outage")
             b == Ev(t, "BringDown", m, "outage")
             c == Ev(u, "BringUp", l, "outage")
             d == Ev(u, "BringUp", m, "outage")
             s == <<a, b, c, d>>
  <2>3. u \in Int /\ t < u /\ l \in Link /\ m \in Link /\ l # m
    BY <2>1, <2>2 DEF AtMost
  <2>4. o = s
    BY <2>1 DEF OutageOf
  <2> HIDE DEF u, l, m
  <2>5. /\ a \in Event /\ a.at = t /\ a.op = "BringDown" /\ a.link = l /\ a.by = "outage"
        /\ b \in Event /\ b.at = t /\ b.op = "BringDown" /\ b.link = m /\ b.by = "outage"
    BY <2>2, <2>3, EvIsEvent DEF Ops, Causes
  <2>6. /\ c \in Event /\ c.at = u /\ c.op = "BringUp" /\ c.link = l /\ c.by = "outage"
        /\ d \in Event /\ d.at = u /\ d.op = "BringUp" /\ d.link = m /\ d.by = "outage"
    BY <2>3, EvIsEvent DEF Ops, Causes
  <2> HIDE DEF a, b, c, d
  <2>7. /\ s \in Seq(Event) /\ DOMAIN s = 1..4
        /\ s[1] = a /\ s[2] = b /\ s[3] = c /\ s[4] = d
    BY <2>5, <2>6
  <2> HIDE DEF s
  <2>8. \A i \in DOMAIN s : i \in {1, 2, 3, 4}
    BY <2>7
  <2>9. Timely(a) /\ Timely(b) /\ Timely(c) /\ Timely(d)
    BY <2>2, <2>3, <2>5, <2>6 DEF Timely
  <2>10. Later(s, 3, 1) /\ Later(s, 4, 2)
    BY <2>3, <2>5, <2>6, <2>7 DEF Later
  <2>11. Followed(s)
    BY <2>5, <2>6, <2>7, <2>8, <2>10 DEF Followed
  <2>12. Once(s)
    BY <2>3, <2>5, <2>6, <2>7, <2>8 DEF Once
  <2>13. Whole(s)
    BY <2>5, <2>6, <2>7, <2>8 DEF Whole
  <2>14. \A i \in DOMAIN s : Timely(s[i]) /\ s[i].by = "outage"
    BY <2>5, <2>6, <2>7, <2>8, <2>9, Zenon
  <2>15. Suite(s, F, {"outage"})
    BY <2>7, <2>11, <2>12, <2>14 DEF Suite
  <2> QED BY <2>4, <2>13, <2>15
<1> QED BY <1>1, <1>2


(* (the tries of ScheduleFlap are finitely many)                             *)
LEMMA HundredIsFinite == IsFiniteSet(0..100)
<1> DEFINE lo == 0  hi == 100
<1>1. lo \in Int /\ hi \in Int
  OBVIOUS
<1> HIDE DEF lo, hi
<1>2. IsFiniteSet(lo..hi)
  BY <1>1, FS_Interval
<1> QED BY <1>2 DEF lo, hi

(* Every flap that is scheduled is over before the end given to              *)
(* ScheduleFlap: as many numbers satisfy a bound that holds for all below    *)
(* it as the first of them.                                                  *)
LEMMA FlapsInTime ==
  ASSUME NEW start \in Int, NEW end \in Int, NEW down \in Int, NEW period \in Nat,
         NEW m \in Nat,
         m < Cardinality({k \in 0..100 : start + k * period + down < end})
  PROVE  start + m * period + down < end
<1> DEFINE S == {k \in 0..100 : start + k * period + down < end}
           p == period
<1>1. IsFiniteSet(0..100)
  BY HundredIsFinite
<1>2. IsFiniteSet(S) /\ Cardinality(S) \in Nat
  BY <1>1, FS_Subset, FS_CardinalityType
<1> SUFFICES ASSUME ~(start + m * p + down < end)
             PROVE  FALSE
  OBVIOUS
<1>3. S \subseteq 0..(m - 1)
  <2> SUFFICES ASSUME NEW k \in S, ~(k < m) PROVE FALSE
    OBVIOUS
  <2> DEFINE j == k - m
  <2>1. j \in Nat /\ k = m + j
    OBVIOUS
  <2> HIDE DEF j
  <2>2. k * p = m * p + j * p
    BY <2>1
  <2>3. j * p \in Nat /\ m * p \in Nat
    BY <2>1
  <2>4. start + k * p + down < end
    OBVIOUS
  <2> QED BY <2>2, <2>3, <2>4
<1>4. IsFiniteSet(0..(m - 1)) /\ Cardinality(0..(m - 1)) = m
  BY FS_Interval
<1>5. m < Cardinality(S)
  OBVIOUS
<1> HIDE DEF S
<1>6. Cardinality(S) <= m
  BY <1>3, <1>4, FS_Subset
<1> QED BY <1>2, <1>5, <1>6

(* and the flaps of one link.                                                *)
LEMMA FlapSuite ==
  ASSUME NEW w \in Nat \ {0}, NEW f \in Flap(w)
  PROVE  Suite(f[2], f[1], {"flap"}) /\ Whole(f[2])
<1>1. CASE \A a, b \in Link : a = b
  <2>1. f[2] = <<>>
    BY <1>1 DEF Flap
  <2> QED BY <2>1, EmptySuite
<1>2. CASE ~(\A a, b \in Link : a = b)
  <2>1. PICK l \in Link, t \in Frac(30, 5, 20, 40),
             d \in Drawn(Seconds(2, w), Seconds(4, w)), p \in Drawn(Seconds(8, w), Seconds(14, w)) :
          f = <<l, ScheduleFlap(l, t, 70, d, p)>>
    BY <1>2 DEF Flap
  <2>2. t \in Int
    <3> DEFINE b == 30  j == 5  lo == 20  hi == 40
    <3>1. b \in Int /\ j \in Nat /\ lo \in Int /\ hi \in Int /\ lo <= hi /\ t \in Frac(b, j, lo, hi)
      BY <2>1
    <3> HIDE DEF b, j, lo, hi
    <3>2. t \in lo..hi
      BY <3>1, FracBetween
    <3> QED BY <3>2 DEF lo, hi
  <2>3. d \in Nat
    <3>1. Seconds(2, w) \in Nat /\ Seconds(4, w) \in Nat /\ Seconds(2, w) <= Seconds(4, w)
      BY SecondsGrow
    <3> QED BY <3>1, DrawnBetween
  <2>4. p \in Nat
    <3>1. Seconds(8, w) \in Nat /\ Seconds(14, w) \in Nat /\ Seconds(8, w) <= Seconds(14, w)
      BY SecondsGrow
    <3> QED BY <3>1, DrawnBetween
  <2> DEFINE n == Cardinality({k \in 0..100 : t + k * p + d < 70})
             at(k) == t + ((k - 1) \div 2) * p
             s == [k \in 1..2 * n |-> IF k % 2 = 1 THEN Ev(at(k), "BringDown", l, "flap")
                                      ELSE Ev(at(k) + d, "BringUp", l, "flap")]
  <2>5. f[1] = l /\ f[2] = s
    BY <2>1 DEF ScheduleFlap
  <2>6. n \in Nat
    <3> DEFINE S == {k \in 0..100 : t + k * p + d < 70}
    <3>1. IsFiniteSet(0..100) /\ S \subseteq 0..100
      BY HundredIsFinite
    <3> HIDE DEF S
    <3>2. IsFiniteSet(S)
      BY <3>1, FS_Subset
    <3>3. Cardinality(S) \in Nat
      BY <3>2, FS_CardinalityType
    <3> QED BY <3>3 DEF S
  <2>7. \A m \in Nat : m < n => t + m * p + d < 70
    <3> DEFINE end == 70
    <3>1. end \in Int /\ n = Cardinality({k \in 0..100 : t + k * p + d < end})
      OBVIOUS
    <3> HIDE DEF end, n
    <3>2. ASSUME NEW m \in Nat, m < n PROVE t + m * p + d < end
      <4>1. m < Cardinality({k \in 0..100 : t + k * p + d < end})
        BY <3>1, <3>2, Zenon
      <4>2. d \in Int
        BY <2>3
      <4> QED BY <2>2, <2>4, <3>1, <4>1, <4>2, FlapsInTime, Zenon
    <3> QED BY <3>2 DEF end
  <2> HIDE DEF n
  <2>8. ASSUME NEW k \in 1..2 * n
        PROVE  /\ at(k) \in Int /\ at(k) + d < 70
               /\ s[k] \in Event /\ s[k].link = l /\ s[k].by = "flap"
               /\ k % 2 = 1 => s[k].op = "BringDown" /\ s[k].at = at(k)
               /\ k % 2 # 1 => s[k].op = "BringUp" /\ s[k].at = at(k) + d
    <3> DEFINE m == (k - 1) \div 2
    <3>1. m \in Nat /\ m < n
      BY <2>6
    <3>2. t + m * p + d < 70
      BY <2>7, <3>1
    <3> HIDE DEF m
    <3>3. m * p \in Int
      BY <2>4, <3>1
    <3>4. at(k) \in Int /\ at(k) + d < 70 /\ at(k) + d \in Int
      BY <2>2, <2>3, <3>2, <3>3 DEF m
    <3> HIDE DEF at
    <3>5. CASE k % 2 = 1
      <4>1. s[k] = Ev(at(k), "BringDown", l, "flap")
        BY <3>5
      <4> HIDE DEF s
      <4> DEFINE x == at(k)
      <4>2. x \in Int /\ "BringDown" \in Ops /\ l \in Link \cup {NoLink} /\ "flap" \in Causes
        BY <3>4 DEF Ops, Causes
      <4> HIDE DEF x
      <4>3. /\ Ev(x, "BringDown", l, "flap") \in Event
            /\ Ev(x, "BringDown", l, "flap").at = x /\ Ev(x, "BringDown", l, "flap").op = "BringDown"
            /\ Ev(x, "BringDown", l, "flap").link = l /\ Ev(x, "BringDown", l, "flap").by = "flap"
        BY <4>2, EvIsEvent
      <4>4. s[k] = Ev(x, "BringDown", l, "flap")
        BY <4>1 DEF x
      <4> QED BY <3>4, <3>5, <4>3, <4>4 DEF x
    <3>6. CASE k % 2 # 1
      <4>1. s[k] = Ev(at(k) + d, "BringUp", l, "flap")
        BY <3>6
      <4> HIDE DEF s
      <4> DEFINE x == at(k) + d
      <4>2. x \in Int /\ "BringUp" \in Ops /\ l \in Link \cup {NoLink} /\ "flap" \in Causes
        BY <3>4 DEF Ops, Causes
      <4> HIDE DEF x
      <4>3. /\ Ev(x, "BringUp", l, "flap") \in Event
            /\ Ev(x, "BringUp", l, "flap").at = x /\ Ev(x, "BringUp", l, "flap").op = "BringUp"
            /\ Ev(x, "BringUp", l, "flap").link = l /\ Ev(x, "BringUp", l, "flap").by = "flap"
        BY <4>2, EvIsEvent
      <4>4. s[k] = Ev(x, "BringUp", l, "flap")
        BY <4>1 DEF x
      <4> QED BY <3>4, <3>6, <4>3, <4>4 DEF x
    <3> QED BY <3>4, <3>5, <3>6
  <2>9. DOMAIN s = 1..2 * n /\ s \in [1..2 * n -> Event] /\ 2 * n \in Nat
    BY <2>6, <2>8
  <2>10. s \in Seq(Event)
    <3> HIDE DEF s
    <3> QED BY <2>9
  <2>11. ASSUME NEW k \in 1..2 * n, k % 2 = 1
         PROVE  k + 1 \in 1..2 * n /\ (k + 1) % 2 # 1 /\ at(k + 1) = at(k)
    <3>1. k + 1 \in 1..2 * n /\ (k + 1) % 2 # 1 /\ ((k + 1) - 1) \div 2 = (k - 1) \div 2
      BY <2>6, <2>11
    <3> QED BY <3>1, Zenon
  <2> HIDE DEF s, at
  <2>12. Followed(s)
    <3> SUFFICES ASSUME NEW i \in 1..2 * n
                 PROVE  /\ s[i].op \in {"Degrade", "BringDown"} =>
                             \E j \in DOMAIN s : Later(s, j, i) /\ s[j].op = "BringUp" /\ s[j].link = s[i].link
                        /\ s[i].op = "BlackHoleOn" =>
                             \E j \in DOMAIN s : Later(s, j, i) /\ s[j].op = "BlackHoleOff"
      BY <2>9 DEF Followed
    <3>1. CASE i % 2 = 1
      <4>1. /\ i + 1 \in DOMAIN s /\ s[i + 1].op = "BringUp" /\ s[i + 1].link = s[i].link
            /\ s[i].op = "BringDown" /\ s[i].at = at(i) /\ s[i + 1].at = at(i) + d
        BY <2>8, <2>9, <2>11, <3>1
      <4>2. Later(s, i + 1, i)
        BY <2>3, <2>8, <4>1 DEF Later
      <4> QED BY <4>1, <4>2
    <3>2. CASE i % 2 # 1
      BY <2>8, <3>2
    <3> QED BY <3>1, <3>2
  <2>13. Once(s) /\ Whole(s)
    BY <2>8, <2>9 DEF Once, Whole
  <2>14. \A k \in DOMAIN s : Timely(s[k]) /\ s[k].by = "flap" /\ s[k].link = l
    <3> TAKE k \in DOMAIN s
    <3>1. s[k].at < 70 /\ s[k].op \in {"BringDown", "BringUp"} /\ s[k].by = "flap" /\ s[k].link = l
      BY <2>3, <2>8, <2>9
    <3> QED BY <3>1 DEF Timely
  <2>15. Suite(s, l, {"flap"})
    BY <2>10, <2>12, <2>13, <2>14 DEF Suite
  <2> QED BY <2>5, <2>13, <2>15
<1> QED BY <1>1, <1>2


-----------------------------------------------------------------------------
\* The inductive invariant.

\* While the earlier of two crises has events to come the later is whole.
InTurn ==
  /\ (\E i \in DOMAIN pending : pending[i].by = "gray") =>
       \A l \in Link : Scheduled("outage", "BringUp", l) => Scheduled("outage", "BringDown", l)
  /\ (\E i \in DOMAIN pending : pending[i].by \in {"gray", "flap"}) =>
       (Scheduled("hole", "BlackHoleOff", NoLink) => Scheduled("hole", "BlackHoleOn", NoLink))

\* An event of the outage or of the black hole is at the link and at the time
\* that D has for it.
AsDrawn(e, D) ==
  /\ e.by = "outage" => e.link \in D.outage
  /\ e.by = "outage" /\ e.op = "BringUp" => e.at = D.up
  /\ e.op = "BlackHoleOn" => e.at = D.on
AllAsDrawn(s, D) == \A i \in DOMAIN s : AsDrawn(s[i], D)
EventsAsDrawn == AllAsDrawn(pending, drawn)

\* Once the black hole has begun nothing is scheduled for an earlier time.
HoleBegan ==
  InForce("hole", NoLink, "BlackHoleOn", "BlackHoleOff") =>
    \A i \in DOMAIN pending : drawn.on <= pending[i].at

\* Event e gives device d its normal loss back, or none.
Restores(e, d) ==
  \/ e.op = "BringUp" /\ d \in DevicesOf(e.link)
  \/ e.op = "BlackHoleOff" /\ d \in OnDark

\* The run is over, or each faulty device has an event that restores it: of
\* the time that EveryFaultEnds speaks of only the end of the run matters.
FaultsEnd ==
  \/ pending = <<>> /\ now = 100
  \/ \A d \in Device : rate[d] > Normal(d) => \E i \in DOMAIN pending : Restores(pending[i], d)

StressInv ==
  /\ rate \in [Device -> 0..100]
  /\ Suite(pending, drawn.flap, Causes)
  /\ InTurn /\ EventsAsDrawn /\ HoleBegan
  /\ FaultsEnd /\ LinksStayHit /\ StaysDark

(* A device belongs to one link at most, whose loss is its normal loss.      *)
LEMMA NormalLoss ==
  /\ \A d \in Device : Normal(d) \in 0..29
  /\ \A l \in Link : \A d \in DevicesOf(l) : Normal(d) = Loss[l] /\ d \in Device /\ Loss[l] \in 0..29
  /\ \A k, l \in Link : k # l => DevicesOf(k) \cap DevicesOf(l) = {}
<1>1. \A k, l \in Link : k # l => DevicesOf(k) \cap DevicesOf(l) = {}
  BY StressAssumption DEF DevicesOf
<1>2. \A l \in Link : Loss[l] \in 0..29 /\ \A d \in DevicesOf(l) : d \in Device
  <2> TAKE l \in Link
  <2>1. Ends[l] \in Device \X Device /\ Loss[l] \in 0..29
    BY StressAssumption
  <2> QED BY <2>1 DEF DevicesOf
<1>3. ASSUME NEW d \in Device PROVE Normal(d) \in 0..29
  <2>1. CASE \E l \in Link : d \in DevicesOf(l)
    <3> DEFINE c == CHOOSE l \in Link : d \in DevicesOf(l)
    <3>1. c \in Link
      BY <2>1
    <3>2. Normal(d) = Loss[c]
      BY <2>1 DEF Normal
    <3> QED BY <1>2, <3>1, <3>2
  <2>2. CASE ~ \E l \in Link : d \in DevicesOf(l)
    BY <2>2 DEF Normal
  <2> QED BY <2>1, <2>2
<1>4. ASSUME NEW l \in Link, NEW d \in DevicesOf(l)
      PROVE  Normal(d) = Loss[l]
  <2> DEFINE c == CHOOSE k \in Link : d \in DevicesOf(k)
  <2>1. c \in Link /\ d \in DevicesOf(c)
    OBVIOUS
  <2>2. c = l
    BY <1>1, <2>1
  <2> QED BY <2>2 DEF Normal
<1> QED BY <1>1, <1>2, <1>3, <1>4

(* Lists of events that are as drawn make one.                               *)
LEMMA DrawnAppended ==
  ASSUME NEW s \in Seq(Event), NEW t \in Seq(Event), NEW D, AllAsDrawn(s, D), AllAsDrawn(t, D)
  PROVE  AllAsDrawn(s \o t, D)
<1> DEFINE u == s \o t
           n == Len(s)
<1>1. \A k \in DOMAIN u :
        \/ k \in DOMAIN s /\ u[k] = s[k]
        \/ k - n \in DOMAIN t /\ u[k] = t[k - n]
  BY Appended, Zenon
<1> HIDE DEF u, n
<1>2. AllAsDrawn(u, D)
  BY <1>1, Zenon DEF AllAsDrawn
<1> QED BY <1>2 DEF u

(* No crisis but the outage and the black hole has anything to do with D.    *)
LEMMA OthersAsDrawn ==
  ASSUME NEW s, NEW F, NEW B, NEW D, Suite(s, F, B), B \cap {"outage", "hole"} = {}
  PROVE  AllAsDrawn(s, D)
<1> SUFFICES ASSUME NEW i \in DOMAIN s PROVE AsDrawn(s[i], D)
  BY DEF AllAsDrawn
<1>1. Timely(s[i]) /\ s[i].by \in B
  BY DEF Suite
<1> QED BY <1>1 DEF Timely, AsDrawn

(* The outage and the black hole are as drawn.                               *)
LEMMA OutageAsDrawn ==
  ASSUME NEW o \in Outage, NEW h, NEW f
  PROVE  AllAsDrawn(o, DrawnOf(o, h, f))
<1> DEFINE D == DrawnOf(o, h, f)
<1>1. CASE o = <<>>
  BY <1>1 DEF AllAsDrawn
<1>2. CASE o # <<>>
  <2>1. PICK a, b, t, u : o = OutageOf(a, b, t, u)
    BY <1>2 DEF Outage
  <2>2. /\ DOMAIN o = 1..4
        /\ o[1].op = "BringDown" /\ o[2].op = "BringDown"
        /\ o[3].op = "BringUp" /\ o[4].op = "BringUp" /\ o[3].at = o[4].at
    BY <2>1 DEF OutageOf, Ev
  <2>3. D.outage = {o[i].link : i \in DOMAIN o} /\ D.up = o[4].at
    BY <1>2 DEF DrawnOf
  <2> HIDE DEF D
  <2>4. ASSUME NEW i \in DOMAIN o PROVE AsDrawn(o[i], D)
    BY <2>2, <2>3 DEF AsDrawn
  <2> QED BY <2>4 DEF AllAsDrawn, D
<1> QED BY <1>1, <1>2

LEMMA HoleAsDrawn ==
  ASSUME NEW w, NEW h \in BlackHole(w), NEW o, NEW f
  PROVE  AllAsDrawn(h, DrawnOf(o, h, f))
<1> DEFINE D == DrawnOf(o, h, f)
<1>1. CASE h = <<>>
  BY <1>1 DEF AllAsDrawn
<1>2. CASE h # <<>>
  <2>1. PICK t, u : h = <<Ev(t, "BlackHoleOn", NoLink, "hole"), Ev(u, "BlackHoleOff", NoLink, "hole")>>
    BY <1>2 DEF BlackHole
  <2>2. /\ DOMAIN h = 1..2 /\ h[1].op = "BlackHoleOn" /\ h[2].op = "BlackHoleOff"
        /\ h[1].by = "hole" /\ h[2].by = "hole"
    BY <2>1 DEF Ev
  <2>3. D.on = h[1].at
    BY <1>2 DEF DrawnOf
  <2> HIDE DEF D
  <2>4. ASSUME NEW i \in DOMAIN h PROVE AsDrawn(h[i], D)
    BY <2>2, <2>3 DEF AsDrawn
  <2> QED BY <2>4 DEF AllAsDrawn, D
<1> QED BY <1>1, <1>2

LEMMA StressInitInv == StressInit => StressInv
<1> SUFFICES ASSUME StressInit PROVE StressInv
  OBVIOUS
<1>0. PICK w \in Windows :
        \E g \in GrayFail, o \in Outage, k \in Kill, h \in BlackHole(w), f \in Flap(w) :
          /\ pending = g \o o \o k \o h \o f[2] \o <<Ev(100, "Stop", NoLink, "runner")>>
          /\ drawn = DrawnOf(o, h, f)
  BY DEF StressInit, Schedule
<1>1. PICK g \in GrayFail, o \in Outage, k \in Kill, h \in BlackHole(w), f \in Flap(w) :
        /\ pending = g \o o \o k \o h \o f[2] \o <<Ev(100, "Stop", NoLink, "runner")>>
        /\ drawn = DrawnOf(o, h, f)
  BY <1>0
<1> DEFINE F == f[1]
           e == Ev(100, "Stop", NoLink, "runner")
<1>2. /\ Suite(g, F, {"gray"}) /\ Whole(g) /\ Suite(o, F, {"outage"}) /\ Whole(o)
      /\ Suite(k, F, {"kill"}) /\ Whole(k) /\ Suite(h, F, {"hole"}) /\ Whole(h)
      /\ Suite(f[2], F, {"flap"}) /\ Whole(f[2])
  <2>1. w \in Nat \ {0}
    BY StressAssumption
  <2> QED BY <1>1, <2>1, GraySuite, OutageSuite, KillSuite, HoleSuite, FlapSuite
<1>3. Suite(<<e>>, F, {"runner"}) /\ Whole(<<e>>)
  <2>1. e \in Event /\ e.at = 100 /\ e.op = "Stop" /\ e.by = "runner"
    BY EvIsEvent DEF Ops, Causes
  <2> HIDE DEF e
  <2>2. Timely(e)
    BY <2>1 DEF Timely
  <2> QED BY <2>1, <2>2, SingleSuite
<1> HIDE DEF F, e
<1>4. Suite(g \o o, F, {"gray", "outage"}) /\ Whole(g \o o)
  <2>1. {"gray"} \cap {"outage"} = {} /\ {"gray"} \cup {"outage"} = {"gray", "outage"}
    OBVIOUS
  <2>2. Suite(g \o o, F, {"gray"} \cup {"outage"})
    BY <1>2, <2>1, SuiteAppended
  <2>3. Whole(g \o o)
    BY <1>2, WholeAppended DEF Suite
  <2> QED BY <2>1, <2>2, <2>3
<1>5. Suite(g \o o \o k, F, {"gray", "outage", "kill"}) /\ Whole(g \o o \o k)
  <2> DEFINE u == g \o o
  <2>1. {"gray", "outage"} \cap {"kill"} = {} /\ {"gray", "outage"} \cup {"kill"} = {"gray", "outage", "kill"}
    OBVIOUS
  <2> HIDE DEF u
  <2>2. Suite(u \o k, F, {"gray", "outage"} \cup {"kill"})
    BY <1>2, <1>4, <2>1, SuiteAppended DEF u
  <2>3. Whole(u \o k)
    BY <1>2, <1>4, WholeAppended DEF Suite, u
  <2> QED BY <2>1, <2>2, <2>3 DEF u
<1>6. Suite(g \o o \o k \o h, F, {"gray", "outage", "kill", "hole"}) /\ Whole(g \o o \o k \o h)
  <2> DEFINE u == g \o o \o k
             B == {"gray", "outage", "kill"}
             C == {"gray", "outage", "kill", "hole"}
  <2>1. B \cap {"hole"} = {} /\ B \cup {"hole"} = C
    OBVIOUS
  <2> HIDE DEF u, B, C
  <2>2. Suite(u \o h, F, B \cup {"hole"})
    BY <1>2, <1>5, <2>1, SuiteAppended DEF u, B
  <2>3. Whole(u \o h)
    BY <1>2, <1>5, WholeAppended DEF Suite, u
  <2>4. Suite(u \o h, F, C)
    BY <2>1, <2>2
  <2> QED BY <2>3, <2>4 DEF u, C
<1>7. Suite(g \o o \o k \o h \o f[2], F, {"gray", "outage", "kill", "hole", "flap"})
      /\ Whole(g \o o \o k \o h \o f[2])
  <2> DEFINE u == g \o o \o k \o h
             v == f[2]
             B == {"gray", "outage", "kill", "hole"}
             C == {"gray", "outage", "kill", "hole", "flap"}
  <2>1. B \cap {"flap"} = {} /\ B \cup {"flap"} = C
    OBVIOUS
  <2>2. Suite(u, F, B) /\ Whole(u) /\ Suite(v, F, {"flap"}) /\ Whole(v)
    BY <1>2, <1>6
  <2> HIDE DEF u, B, C, v
  <2>3. Suite(u \o v, F, B \cup {"flap"})
    BY <2>1, <2>2, SuiteAppended
  <2>4. Whole(u \o v)
    BY <2>2, WholeAppended DEF Suite
  <2>5. Suite(u \o v, F, C)
    BY <2>1, <2>3
  <2> QED BY <2>4, <2>5 DEF u, v, C
<1>8. Suite(pending, F, Causes) /\ Whole(pending)
  <2> DEFINE u == g \o o \o k \o h \o f[2]
             v == <<e>>
             B == {"gray", "outage", "kill", "hole", "flap"}
  <2>1. B \cap {"runner"} = {} /\ B \cup {"runner"} = Causes
    BY DEF Causes
  <2>2. Suite(u, F, B) /\ Whole(u) /\ Suite(v, F, {"runner"}) /\ Whole(v) /\ pending = u \o v
    BY <1>1, <1>3, <1>7 DEF e
  <2> HIDE DEF u, B, v
  <2>3. Suite(u \o v, F, B \cup {"runner"})
    BY <2>1, <2>2, SuiteAppended
  <2>4. Whole(u \o v)
    BY <2>2, WholeAppended DEF Suite
  <2> QED BY <2>1, <2>2, <2>3, <2>4
<1>9. drawn.flap = F
  BY <1>1 DEF F, DrawnOf
<1>10. \A i \in DOMAIN pending : pending[i] \in Event /\ Timely(pending[i])
  BY <1>8 DEF Suite
<1>11. /\ \A l \in Link : /\ Scheduled("gray", "BringUp", l) => Scheduled("gray", "Degrade", l)
                          /\ Scheduled("outage", "BringUp", l) => Scheduled("outage", "BringDown", l)
       /\ Scheduled("hole", "BlackHoleOff", NoLink) => Scheduled("hole", "BlackHoleOn", NoLink)
  <2>1. ASSUME NEW l \in Link, NEW b \in {"gray", "outage"}, Scheduled(b, "BringUp", l)
        PROVE  \E j \in DOMAIN pending :
                 /\ pending[j].by = b /\ pending[j].link = l
                 /\ pending[j].op \in {"Degrade", "BringDown"}
    BY <1>8, <2>1 DEF Whole, Scheduled
  <2>2. ASSUME NEW j \in DOMAIN pending
        PROVE  /\ pending[j].by = "gray" => pending[j].op # "BringDown"
               /\ pending[j].by = "outage" => pending[j].op # "Degrade"
               /\ pending[j].by = "hole" => pending[j].link = NoLink
    BY <1>10 DEF Timely
  <2>3. Scheduled("hole", "BlackHoleOff", NoLink) => Scheduled("hole", "BlackHoleOn", NoLink)
    BY <1>8, <2>2 DEF Whole, Scheduled
  <2> QED BY <2>1, <2>2, <2>3 DEF Scheduled
<1>12. InTurn /\ LinksStayHit /\ StaysDark
  BY <1>11 DEF InTurn, LinksStayHit, StaysDark, InForce
<1>13. EventsAsDrawn /\ HoleBegan
  <2> DEFINE D == DrawnOf(o, h, f)
             a == g \o o
             b == a \o k
             c == b \o h
             d == c \o f[2]
  <2>1. AllAsDrawn(o, D) /\ AllAsDrawn(h, D)
    BY <1>1, OutageAsDrawn, HoleAsDrawn
  <2> HIDE DEF D
  <2>2. AllAsDrawn(g, D) /\ AllAsDrawn(k, D) /\ AllAsDrawn(f[2], D) /\ AllAsDrawn(<<e>>, D)
    BY <1>2, <1>3, OthersAsDrawn
  <2>3. /\ g \in Seq(Event) /\ o \in Seq(Event) /\ k \in Seq(Event) /\ h \in Seq(Event)
        /\ f[2] \in Seq(Event) /\ <<e>> \in Seq(Event)
        /\ a \in Seq(Event) /\ b \in Seq(Event) /\ c \in Seq(Event) /\ d \in Seq(Event)
    BY <1>2, <1>3, <1>4, <1>5, <1>6, <1>7 DEF Suite
  <2>4. AllAsDrawn(a, D)
    BY <2>1, <2>2, <2>3, DrawnAppended
  <2>5. AllAsDrawn(b, D)
    BY <2>2, <2>3, <2>4, DrawnAppended
  <2>6. AllAsDrawn(c, D)
    BY <2>1, <2>3, <2>5, DrawnAppended
  <2>7. AllAsDrawn(d, D)
    BY <2>2, <2>3, <2>6, DrawnAppended
  <2>8. AllAsDrawn(d \o <<e>>, D)
    BY <2>2, <2>3, <2>7, DrawnAppended
  <2>9. EventsAsDrawn
    BY <1>1, <2>8 DEF EventsAsDrawn, D, e
  <2> QED BY <1>11, <2>9 DEF HoleBegan, InForce
<1>14. rate = [d \in Device |-> Normal(d)] /\ rate \in [Device -> 0..100]
  BY NormalLoss DEF StressInit
<1>15. FaultsEnd
  BY <1>14, NormalLoss DEF FaultsEnd
<1> QED
  BY <1>8, <1>9, <1>12, <1>13, <1>14, <1>15 DEF StressInv


-----------------------------------------------------------------------------
\* What any step does to the list of events.

(* The event that fires is taken out of the list and nothing else is.        *)
LEMMA FireRemoves ==
  ASSUME StressInv, NEW i \in DOMAIN pending, Due(i), pending' = RemoveAt(pending, i), UNCHANGED drawn
  PROVE  /\ Suite(pending, drawn.flap, Causes)'
         /\ \A k \in DOMAIN pending' : \E j \in DOMAIN pending : j # i /\ pending'[k] = pending[j]
         /\ \A j \in DOMAIN pending : j # i => \E k \in DOMAIN pending' : pending'[k] = pending[j]
         /\ \A j \in DOMAIN pending : pending[i].at <= pending[j].at
<1>1. Suite(pending, drawn.flap, Causes) /\ pending \in Seq(Event)
  BY DEF StressInv, Suite
<1>2. First(pending, i)
  BY DEF Due, First
<1>3. Suite(RemoveAt(pending, i), drawn.flap, Causes)
  BY <1>1, <1>2, SuiteRemoved
<1>4. /\ \A k \in DOMAIN pending' : \E j \in DOMAIN pending : j # i /\ pending'[k] = pending[j]
      /\ \A j \in DOMAIN pending : j # i => \E k \in DOMAIN pending' : pending'[k] = pending[j]
  BY <1>1, Kept
<1>5. \A j \in DOMAIN pending : pending[i].at <= pending[j].at
  <2> TAKE j \in DOMAIN pending
  <2>1. pending[i] \in Event /\ pending[j] \in Event
    BY <1>1
  <2>2. pending[i].at \in Int /\ pending[j].at \in Int
    BY <2>1 DEF Event
  <2> QED BY <1>2, <2>2 DEF First
<1>6. Suite(pending, drawn.flap, Causes)'
  BY <1>3 DEF Suite, Followed, Once, Later
<1> QED BY <1>4, <1>5, <1>6

(* The same of what is scheduled by whom, the form the properties need.      *)
LEMMA FireSchedule ==
  ASSUME StressInv, NEW i \in DOMAIN pending, Due(i), pending' = RemoveAt(pending, i), UNCHANGED drawn,
         NEW b, NEW op, NEW l
  PROVE  /\ Scheduled(b, op, l)' => Scheduled(b, op, l)
         /\ Scheduled(b, op, l) =>
              \/ Scheduled(b, op, l)'
              \/ pending[i].by = b /\ pending[i].op = op /\ pending[i].link = l
         /\ b # "flap" /\ pending[i].by = b /\ pending[i].op = op /\ pending[i].link = l =>
              ~Scheduled(b, op, l)'
<1>1. /\ \A k \in DOMAIN pending' : \E j \in DOMAIN pending : j # i /\ pending'[k] = pending[j]
      /\ \A j \in DOMAIN pending : j # i => \E k \in DOMAIN pending' : pending'[k] = pending[j]
  BY FireRemoves
<1>2. Once(pending)
  BY DEF StressInv, Suite
<1>3. Scheduled(b, op, l)' => Scheduled(b, op, l)
  BY <1>1 DEF Scheduled
<1>4. Scheduled(b, op, l) =>
        Scheduled(b, op, l)' \/ (pending[i].by = b /\ pending[i].op = op /\ pending[i].link = l)
  BY <1>1 DEF Scheduled
<1>5. b # "flap" /\ pending[i].by = b /\ pending[i].op = op /\ pending[i].link = l =>
        ~Scheduled(b, op, l)'
  BY <1>1, <1>2 DEF Scheduled, Once
<1> QED BY <1>3, <1>4, <1>5

(* The crises that come later are still whole after the step.                *)
LEMMA FireInTurn ==
  ASSUME StressInv, NEW i \in DOMAIN pending, Due(i), pending' = RemoveAt(pending, i), UNCHANGED drawn
  PROVE  InTurn' /\ EventsAsDrawn'
<1>1. /\ \A k \in DOMAIN pending' : \E j \in DOMAIN pending : j # i /\ pending'[k] = pending[j]
      /\ \A j \in DOMAIN pending : pending[i].at <= pending[j].at
  BY FireRemoves
<1>2. \A j \in DOMAIN pending : pending[j].at \in Int /\ Timely(pending[j])
  <2> TAKE j \in DOMAIN pending
  <2>1. pending[j] \in Event /\ Timely(pending[j])
    BY DEF StressInv, Suite
  <2> QED BY <2>1 DEF Event
<1>3. EventsAsDrawn'
  BY <1>1 DEF StressInv, EventsAsDrawn, AllAsDrawn, AsDrawn
<1>4. ASSUME NEW k \in DOMAIN pending', pending'[k].by = "gray", NEW l \in Link,
             Scheduled("outage", "BringUp", l)'
      PROVE  Scheduled("outage", "BringDown", l)'
  <2>1. PICK j \in DOMAIN pending : pending[j].by = "gray"
    BY <1>1, <1>4
  <2>2. Scheduled("outage", "BringDown", l)
    BY <1>4, <2>1, FireSchedule DEF StressInv, InTurn
  <2>3. pending[j].at <= 45
    BY <1>2, <2>1 DEF Timely
  <2>4. pending[i].by = "outage" => pending[i].at >= 47
    BY <1>2 DEF Timely
  <2>5. pending[i].by # "outage"
    BY <1>1, <1>2, <2>3, <2>4
  <2> QED BY <2>2, <2>5, FireSchedule
<1>5. ASSUME NEW k \in DOMAIN pending', pending'[k].by \in {"gray", "flap"},
             Scheduled("hole", "BlackHoleOff", NoLink)'
      PROVE  Scheduled("hole", "BlackHoleOn", NoLink)'
  <2>1. PICK j \in DOMAIN pending : pending[j].by \in {"gray", "flap"}
    BY <1>1, <1>5
  <2>2. Scheduled("hole", "BlackHoleOn", NoLink)
    BY <1>5, <2>1, FireSchedule DEF StressInv, InTurn
  <2>3. pending[j].at < 70
    BY <1>2, <2>1 DEF Timely
  <2>4. pending[i].by = "hole" => pending[i].at >= 80
    BY <1>2 DEF Timely
  <2>5. pending[i].by # "hole"
    BY <1>1, <1>2, <2>3, <2>4
  <2> QED BY <2>2, <2>5, FireSchedule
<1>6. InTurn'
  BY <1>4, <1>5 DEF InTurn
<1> QED BY <1>3, <1>6

-----------------------------------------------------------------------------
\* One lemma for each of the properties: an event preserves it.

(* The part of the invariant on the list does not depend on the event.       *)
LEMMA EventInv ==
  ASSUME StressInv, NEW i \in DOMAIN pending,
         \/ Degrade(i) \/ BringDown(i) \/ BringUp(i)
         \/ BlackHoleOn(i) \/ BlackHoleOff(i) \/ ForceDeplete(i)
  PROVE  /\ Due(i) /\ pending' = RemoveAt(pending, i) /\ UNCHANGED drawn
         /\ rate' \in [Device -> 0..100]
         /\ pending[i] \in Event /\ Timely(pending[i])
<1>1. Due(i) /\ pending' = RemoveAt(pending, i) /\ UNCHANGED drawn
  BY DEF Degrade, BringDown, BringUp, BlackHoleOn, BlackHoleOff, ForceDeplete, Fire
<1>2. pending[i] \in Event /\ Timely(pending[i])
  BY DEF StressInv, Suite
<1>3. \A D, r : rate \in [Device -> 0..100] /\ r \in 0..100 /\ SetErrorRate(D, r)
                => rate' \in [Device -> 0..100]
  BY DEF SetErrorRate
<1>4. pending[i].op = "BringUp" => pending[i].link \in Link /\ Loss[pending[i].link] \in 0..100
  BY <1>2, NormalLoss DEF Timely, DevicesOf
<1>5. rate' \in [Device -> 0..100]
  BY <1>3, <1>4 DEF StressInv, Degrade, BringDown, BringUp, BlackHoleOn, BlackHoleOff,
                    ForceDeplete, Fire, Dark, Gray
<1> QED BY <1>1, <1>2, <1>5

(* A restorer that is scheduled stays scheduled until it restores, and what  *)
(* begins a fault has the event that ends it behind it.                      *)
LEMMA EventFaultsEnd ==
  ASSUME StressInv, NEW i \in DOMAIN pending,
         \/ Degrade(i) \/ BringDown(i) \/ BringUp(i)
         \/ BlackHoleOn(i) \/ BlackHoleOff(i) \/ ForceDeplete(i)
  PROVE  FaultsEnd'
<1>1. /\ Due(i) /\ pending' = RemoveAt(pending, i) /\ UNCHANGED drawn
      /\ pending[i] \in Event /\ Timely(pending[i])
  BY EventInv
<1>2. \A j \in DOMAIN pending : j # i => \E k \in DOMAIN pending' : pending'[k] = pending[j]
  BY <1>1, FireRemoves
<1>3. \A d \in Device : rate[d] > Normal(d) => \E k \in DOMAIN pending : Restores(pending[k], d)
  BY DEF StressInv, FaultsEnd
<1>4. ASSUME NEW d \in Device, rate[d] > Normal(d), ~Restores(pending[i], d)
      PROVE  \E j \in DOMAIN pending : j # i /\ Restores(pending[j], d)
  BY <1>3, <1>4
<1>5. ASSUME NEW j \in DOMAIN pending, Later(pending, j, i)
      PROVE  j # i
  <2>1. pending[i].at \in Int /\ i \in Int
    BY <1>1 DEF StressInv, Suite, Event
  <2> QED BY <1>5, <2>1 DEF Later
<1>6. /\ pending[i].op \in {"Degrade", "BringDown"} =>
           \E j \in DOMAIN pending : j # i /\ pending[j].op = "BringUp" /\ pending[j].link = pending[i].link
      /\ pending[i].op = "BlackHoleOn" =>
           \E j \in DOMAIN pending : j # i /\ pending[j].op = "BlackHoleOff"
  BY <1>5 DEF StressInv, Suite, Followed
<1>7. SUFFICES ASSUME NEW d \in Device, rate'[d] > Normal(d)
               PROVE  \E j \in DOMAIN pending : j # i /\ Restores(pending[j], d)
  <2>1. \A e, d : Restores(e, d) <=> Restores(e, d)'
    BY DEF Restores, DevicesOf
  <2>2. \A d \in Device : Normal(d)' = Normal(d)
    BY DEF Normal, DevicesOf
  <2> QED BY <1>2, <2>1, <2>2 DEF FaultsEnd
<1>8. rate[d] \in 0..100 /\ Normal(d) \in 0..29
  BY NormalLoss DEF StressInv
<1>9. \A D, r : SetErrorRate(D, r) => rate'[d] = IF d \in D THEN r ELSE rate[d]
  BY DEF SetErrorRate
<1>10. CASE Degrade(i) \/ BringDown(i)
  <2>1. /\ pending[i].op \in {"Degrade", "BringDown"}
        /\ d \notin DevicesOf(pending[i].link) => rate'[d] = rate[d]
    BY <1>9, <1>10 DEF Degrade, BringDown, Fire
  <2>2. CASE d \in DevicesOf(pending[i].link)
    BY <1>6, <2>1, <2>2 DEF Restores
  <2>3. CASE d \notin DevicesOf(pending[i].link)
    BY <1>4, <1>7, <2>1, <2>3 DEF Restores
  <2> QED BY <2>2, <2>3
<1>11. CASE BringUp(i)
  <2>1. pending[i].op = "BringUp" /\ SetErrorRate(DevicesOf(pending[i].link), Loss[pending[i].link])
    BY <1>11 DEF BringUp, Fire
  <2>2. CASE d \in DevicesOf(pending[i].link)
    <3>1. rate'[d] = Loss[pending[i].link] /\ pending[i].link \in Link
      BY <1>1, <1>9, <2>1, <2>2 DEF Timely
    <3> QED BY <1>7, <1>8, <2>2, <3>1, NormalLoss
  <2>3. CASE d \notin DevicesOf(pending[i].link)
    BY <1>4, <1>7, <1>9, <2>1, <2>3 DEF Restores
  <2> QED BY <2>2, <2>3
<1>12. CASE BlackHoleOn(i)
  <2>1. pending[i].op = "BlackHoleOn" /\ SetErrorRate(OnDark, Dark)
    BY <1>12 DEF BlackHoleOn, Fire
  <2>2. CASE d \in OnDark
    BY <1>6, <2>1, <2>2 DEF Restores
  <2>3. CASE d \notin OnDark
    BY <1>4, <1>7, <1>9, <2>1, <2>3 DEF Restores
  <2> QED BY <2>2, <2>3
<1>13. CASE BlackHoleOff(i)
  <2>1. pending[i].op = "BlackHoleOff" /\ SetErrorRate(OnDark, 0)
    BY <1>13 DEF BlackHoleOff, Fire
  <2>2. d \notin OnDark
    BY <1>7, <1>8, <1>9, <2>1
  <2> QED BY <1>4, <1>7, <1>9, <2>1, <2>2 DEF Restores
<1>14. CASE ForceDeplete(i)
  BY <1>4, <1>7, <1>14 DEF ForceDeplete, Fire, Restores
<1> QED BY <1>10, <1>11, <1>12, <1>13, <1>14

(* A gray failure ends before an outage begins, an outage is alone on its    *)
(* link but for the flaps, and the black hole is left out.                   *)
LEMMA EventLinksStayHit ==
  ASSUME StressInv, NEW i \in DOMAIN pending,
         \/ Degrade(i) \/ BringDown(i) \/ BringUp(i)
         \/ BlackHoleOn(i) \/ BlackHoleOff(i) \/ ForceDeplete(i)
  PROVE  LinksStayHit'
<1> DEFINE e == pending[i]
<1>1. /\ Due(i) /\ pending' = RemoveAt(pending, i) /\ UNCHANGED drawn
      /\ e \in Event /\ Timely(e)
  BY EventInv
<1>2. \A j \in DOMAIN pending : e.at <= pending[j].at
  BY <1>1, FireRemoves
<1>3. \A j \in DOMAIN pending : pending[j].at \in Int /\ Timely(pending[j])
  <2> TAKE j \in DOMAIN pending
  <2>1. pending[j] \in Event /\ Timely(pending[j])
    BY DEF StressInv, Suite
  <2> QED BY <2>1 DEF Event
<1>4. e.by = "flap" => e.link = drawn.flap
  BY DEF StressInv, Suite
<1>5. \A D, r, d : d \in Device /\ SetErrorRate(D, r) => rate'[d] = IF d \in D THEN r ELSE rate[d]
  BY DEF SetErrorRate
<1>6. ASSUME NEW l \in Link \ {drawn.flap}, InForce("gray", l, "Degrade", "BringUp")',
             NEW d \in DevicesOf(l)
      PROVE  rate'[d] = Gray
  <2>1. Scheduled("gray", "BringUp", l) /\ d \in Device
    BY <1>1, <1>6, FireSchedule, NormalLoss DEF InForce
  <2>2. e.at <= 45
    <3>1. PICK j \in DOMAIN pending : pending[j].by = "gray"
      BY <2>1 DEF Scheduled
    <3> QED BY <1>2, <1>3, <3>1 DEF Timely
  <2>3. e.by \in {"gray", "flap", "kill"}
    BY <1>1, <1>3, <2>2 DEF Timely
  <2>4. ~(e.by = "gray" /\ e.op = "BringUp" /\ e.link = l)
    BY <1>1, <1>6, FireSchedule DEF InForce
  <2>5. CASE e.by = "gray" /\ e.link = l
    <3>1. e.op = "Degrade"
      BY <1>1, <2>4, <2>5 DEF Timely
    <3>2. SetErrorRate(DevicesOf(l), Gray)
      BY <2>5, <3>1 DEF Degrade, BringDown, BringUp, BlackHoleOn, BlackHoleOff, ForceDeplete, Fire
    <3> QED BY <1>5, <2>1, <3>2
  <2>6. CASE ~(e.by = "gray" /\ e.link = l)
    <3>1. ~Scheduled("gray", "Degrade", l)
      BY <1>1, <1>6, <2>6, FireSchedule DEF InForce
    <3>2. rate[d] = Gray
      BY <2>1, <3>1 DEF StressInv, LinksStayHit, InForce
    <3>3. CASE e.by = "kill"
      BY <1>1, <3>2, <3>3 DEF Timely, Degrade, BringDown, BringUp, BlackHoleOn, BlackHoleOff,
                              ForceDeplete, Fire
    <3>4. CASE e.by # "kill"
      <4>1. e.link \in Link /\ e.link # l /\ e.op \in {"Degrade", "BringDown", "BringUp"}
        BY <1>1, <1>4, <2>3, <2>6, <3>4 DEF Timely
      <4>2. d \notin DevicesOf(e.link)
        BY <4>1, NormalLoss
      <4>3. \E r : SetErrorRate(DevicesOf(e.link), r)
        BY <4>1 DEF Degrade, BringDown, BringUp, BlackHoleOn, BlackHoleOff, ForceDeplete, Fire
      <4> QED BY <1>5, <2>1, <3>2, <4>2, <4>3
    <3> QED BY <3>3, <3>4
  <2> QED BY <2>5, <2>6
<1>7. ASSUME NEW l \in Link \ {drawn.flap}, InForce("outage", l, "BringDown", "BringUp")',
             NEW d \in DevicesOf(l) \ OnDark
      PROVE  rate'[d] = Dark
  <2>1. Scheduled("outage", "BringUp", l) /\ d \in Device
    BY <1>1, <1>7, FireSchedule, NormalLoss DEF InForce
  <2>2. ~(e.by = "outage" /\ e.op = "BringUp" /\ e.link = l)
    BY <1>1, <1>7, FireSchedule DEF InForce
  <2>3. CASE e.by = "outage" /\ e.link = l
    <3>1. e.op = "BringDown"
      BY <1>1, <2>2, <2>3 DEF Timely
    <3>2. SetErrorRate(DevicesOf(l), Dark)
      BY <2>3, <3>1 DEF Degrade, BringDown, BringUp, BlackHoleOn, BlackHoleOff, ForceDeplete, Fire
    <3> QED BY <1>5, <2>1, <3>2
  <2>4. CASE ~(e.by = "outage" /\ e.link = l)
    <3>1. ~Scheduled("outage", "BringDown", l)
      BY <1>1, <1>7, <2>4, FireSchedule DEF InForce
    <3>2. rate[d] = Dark
      BY <1>7, <2>1, <3>1 DEF StressInv, LinksStayHit, InForce
    <3>3. e.by # "gray"
      BY <2>1, <3>1 DEF StressInv, InTurn
    <3>4. CASE e.by \in {"outage", "flap"}
      <4>1. e.link \in Link /\ e.link # l /\ e.op \in {"BringDown", "BringUp"}
        BY <1>1, <1>4, <2>4, <3>4 DEF Timely
      <4>2. d \notin DevicesOf(e.link)
        BY <4>1, NormalLoss
      <4>3. \E r : SetErrorRate(DevicesOf(e.link), r)
        BY <4>1 DEF Degrade, BringDown, BringUp, BlackHoleOn, BlackHoleOff, ForceDeplete, Fire
      <4> QED BY <1>5, <2>1, <3>2, <4>2, <4>3
    <3>5. CASE e.by \notin {"outage", "flap"}
      <4>1. e.op \in {"BlackHoleOn", "BlackHoleOff", "ForceDeplete", "Stop"}
        BY <1>1, <3>3, <3>5 DEF Timely
      <4>2. (\E r : SetErrorRate(OnDark, r)) \/ rate' = rate
        BY <4>1 DEF Degrade, BringDown, BringUp, BlackHoleOn, BlackHoleOff, ForceDeplete, Fire
      <4> QED BY <1>5, <1>7, <2>1, <3>2, <4>2
    <3> QED BY <3>4, <3>5
  <2> QED BY <2>3, <2>4
<1> QED
  BY <1>1, <1>6, <1>7 DEF LinksStayHit, DevicesOf

(* Events fire in the order of their times.                                  *)
LEMMA EventHoleBegan ==
  ASSUME StressInv, NEW i \in DOMAIN pending, Due(i), pending' = RemoveAt(pending, i), UNCHANGED drawn
  PROVE  HoleBegan'
<1> SUFFICES ASSUME InForce("hole", NoLink, "BlackHoleOn", "BlackHoleOff")',
                    NEW k \in DOMAIN pending'
             PROVE  drawn.on <= pending'[k].at
  BY DEF HoleBegan
<1>1. PICK j \in DOMAIN pending : pending'[k] = pending[j]
  BY FireRemoves
<1>2. /\ pending[i].at <= pending[j].at /\ pending[i] \in Event /\ pending[j] \in Event
      /\ Timely(pending[i])
  BY FireRemoves DEF StressInv, Suite
<1>3. pending[i].at \in Int /\ pending[j].at \in Int
  BY <1>2 DEF Event
<1>4. Scheduled("hole", "BlackHoleOff", NoLink)
  BY FireSchedule DEF InForce
<1>5. CASE Scheduled("hole", "BlackHoleOn", NoLink)
  <2>1. pending[i].op = "BlackHoleOn"
    BY <1>5, FireSchedule DEF InForce
  <2>2. pending[i].at = drawn.on
    BY <2>1 DEF StressInv, EventsAsDrawn, AllAsDrawn, AsDrawn
  <2> QED BY <1>1, <1>2, <2>2
<1>6. CASE ~Scheduled("hole", "BlackHoleOn", NoLink)
  BY <1>1, <1>4, <1>6 DEF StressInv, HoleBegan, InForce
<1> QED BY <1>5, <1>6

(* Gray failures and flaps are over before a switch can go dark.             *)
LEMMA EventStaysDark ==
  ASSUME StressInv, NEW i \in DOMAIN pending,
         \/ Degrade(i) \/ BringDown(i) \/ BringUp(i)
         \/ BlackHoleOn(i) \/ BlackHoleOff(i) \/ ForceDeplete(i)
  PROVE  StaysDark'
<1> DEFINE e == pending[i]
<1>1. /\ Due(i) /\ pending' = RemoveAt(pending, i) /\ UNCHANGED drawn
      /\ e \in Event /\ Timely(e) /\ rate' \in [Device -> 0..100]
  BY EventInv
<1>2. \A D, r, d : d \in Device /\ SetErrorRate(D, r) => rate'[d] = IF d \in D THEN r ELSE rate[d]
  BY DEF SetErrorRate
<1>3. SUFFICES ASSUME InForce("hole", NoLink, "BlackHoleOn", "BlackHoleOff")',
                      NEW d \in OnDark, rate'[d] < Dark
               PROVE  \E l \in drawn.outage :
                        /\ d \in DevicesOf(l) /\ ~Scheduled("outage", "BringUp", l)'
                        /\ drawn.on <= drawn.up
  BY <1>1 DEF StaysDark, DevicesOf, Dark
<1>4. Scheduled("hole", "BlackHoleOff", NoLink) /\ d \in Device
  BY <1>1, <1>3, FireSchedule, StressAssumption DEF InForce
<1>5. e.op # "BlackHoleOff"
  <2> SUFFICES ASSUME e.op = "BlackHoleOff" PROVE FALSE
    OBVIOUS
  <2>1. e.by = "hole" /\ e.link = NoLink
    BY <1>1 DEF Timely
  <2> QED BY <1>1, <1>3, <2>1, FireSchedule DEF InForce
<1>6. e.op # "BlackHoleOn"
  <2> SUFFICES ASSUME e.op = "BlackHoleOn" PROVE FALSE
    OBVIOUS
  <2>1. SetErrorRate(OnDark, Dark)
    BY DEF Degrade, BringDown, BringUp, BlackHoleOn, BlackHoleOff, ForceDeplete, Fire
  <2> QED BY <1>2, <1>3, <1>4, <2>1 DEF Dark
<1>7. ~Scheduled("hole", "BlackHoleOn", NoLink)
  BY <1>1, <1>3, <1>6, FireSchedule DEF InForce
<1>8. e.by \notin {"gray", "flap"}
  BY <1>4, <1>7 DEF StressInv, InTurn
<1>9. CASE rate[d] < Dark
  <2>1. PICK l \in drawn.outage :
          d \in DevicesOf(l) /\ ~Scheduled("outage", "BringUp", l) /\ drawn.on <= drawn.up
    BY <1>4, <1>7, <1>9 DEF StressInv, StaysDark, InForce
  <2> QED BY <1>1, <2>1, FireSchedule
<1>10. CASE ~(rate[d] < Dark)
  <2>1. rate' # rate
    BY <1>3, <1>10
  <2>2. e.by = "outage"
    BY <1>1, <1>5, <1>6, <1>8, <2>1 DEF Timely, Degrade, BringDown, BringUp, BlackHoleOn,
                                        BlackHoleOff, ForceDeplete, Fire
  <2>3. e.op = "BringUp" /\ SetErrorRate(DevicesOf(e.link), Loss[e.link])
    <3>1. e.op \in {"BringDown", "BringUp"}
      BY <1>1, <2>2 DEF Timely
    <3>2. CASE e.op = "BringDown"
      <4>1. SetErrorRate(DevicesOf(e.link), Dark)
        BY <3>2 DEF Degrade, BringDown, BringUp, BlackHoleOn, BlackHoleOff, ForceDeplete, Fire
      <4> QED BY <1>2, <1>3, <1>4, <1>10, <4>1 DEF Dark
    <3>3. CASE e.op = "BringUp"
      BY <3>3 DEF Degrade, BringDown, BringUp, BlackHoleOn, BlackHoleOff, ForceDeplete, Fire
    <3> QED BY <3>1, <3>2, <3>3
  <2>4. d \in DevicesOf(e.link)
    BY <1>2, <1>3, <1>4, <1>10, <2>3
  <2>5. PICK l \in drawn.outage : l = e.link /\ e.at = drawn.up
    BY <2>2, <2>3 DEF StressInv, EventsAsDrawn, AllAsDrawn, AsDrawn
  <2>6. ~Scheduled("outage", "BringUp", l)'
    BY <1>1, <2>2, <2>3, <2>5, FireSchedule
  <2>7. drawn.on <= e.at
    BY <1>4, <1>7 DEF StressInv, HoleBegan, InForce
  <2> QED BY <2>4, <2>5, <2>6, <2>7
<1> QED BY <1>9, <1>10

LEMMA StopInv ==
  ASSUME StressInv, NEW i \in DOMAIN pending, Stop(i)
  PROVE  StressInv'
<1>1. pending' = <<>> /\ UNCHANGED <<rate, drawn>> /\ now' = pending[i].at /\ pending[i].op = "Stop"
  BY DEF Stop
<1>2. now' = 100
  <2>1. Timely(pending[i])
    BY DEF StressInv, Suite
  <2> QED BY <1>1, <2>1 DEF Timely
<1>3. Suite(pending', drawn.flap, Causes)
  BY <1>1, EmptySuite
<1>4. Suite(pending, drawn.flap, Causes)'
  BY <1>1, <1>3 DEF Suite, Followed, Once, Later
<1>5. /\ InTurn' /\ EventsAsDrawn' /\ HoleBegan'
      /\ FaultsEnd' /\ LinksStayHit' /\ StaysDark'
  BY <1>1, <1>2 DEF InTurn, EventsAsDrawn, AllAsDrawn, HoleBegan, FaultsEnd, LinksStayHit, StaysDark, InForce, Scheduled
<1> QED BY <1>1, <1>4, <1>5 DEF StressInv

LEMMA StressNextInv == StressInv /\ [StressNext]_stressVars => StressInv'
<1> SUFFICES ASSUME StressInv, [StressNext]_stressVars PROVE StressInv'
  OBVIOUS
<1>1. ASSUME NEW i \in DOMAIN pending,
             \/ Degrade(i) \/ BringDown(i) \/ BringUp(i)
             \/ BlackHoleOn(i) \/ BlackHoleOff(i) \/ ForceDeplete(i)
      PROVE  StressInv'
  <2>1. /\ Due(i) /\ pending' = RemoveAt(pending, i) /\ UNCHANGED drawn
        /\ rate' \in [Device -> 0..100]
    BY <1>1, EventInv
  <2>2. Suite(pending, drawn.flap, Causes)' /\ InTurn' /\ EventsAsDrawn' /\ HoleBegan'
    BY <2>1, FireRemoves, FireInTurn, EventHoleBegan
  <2>3. FaultsEnd' /\ LinksStayHit' /\ StaysDark'
    BY <1>1, EventFaultsEnd, EventLinksStayHit, EventStaysDark
  <2> QED BY <2>1, <2>2, <2>3 DEF StressInv
<1>2. ASSUME NEW i \in DOMAIN pending, Stop(i) PROVE StressInv'
  BY <1>2, StopInv
<1>3. CASE UNCHANGED stressVars
  <2>1. UNCHANGED <<now, pending, rate, drawn>>
    BY <1>3 DEF stressVars
  <2>2. Suite(pending, drawn.flap, Causes)'
    BY <2>1 DEF StressInv, Suite, Followed, Once, Later
  <2>3. InTurn' /\ EventsAsDrawn' /\ HoleBegan'
    BY <2>1 DEF StressInv, InTurn, EventsAsDrawn, AllAsDrawn, AsDrawn, HoleBegan, InForce, Scheduled
  <2>4. FaultsEnd'
    BY <2>1 DEF StressInv, FaultsEnd, Restores, DevicesOf, Normal
  <2>5. LinksStayHit' /\ StaysDark'
    BY <2>1 DEF StressInv, LinksStayHit, StaysDark, InForce, Scheduled, DevicesOf
  <2> QED BY <2>1, <2>2, <2>3, <2>4, <2>5 DEF StressInv
<1> QED BY <1>1, <1>2, <1>3 DEF StressNext

(* Whatever a run draws, on any number of links: no device is left with a    *)
(* fault that no scheduled event will lift.                                  *)
THEOREM FaultsAlwaysEnd == StressSpec => []EveryFaultEnds
<1>1. StressInv => EveryFaultEnds
  BY DEF StressInv, FaultsEnd, EveryFaultEnds, Restores
<1> QED BY <1>1, StressInitInv, StressNextInv, PTL DEF StressSpec

(* Nor is a gray failure or an outage lifted before its time, but for the    *)
(* flapping link and the switch that goes dark.                              *)
THEOREM HitLinksStayHit == StressSpec => []LinksStayHit
<1>1. StressInv => LinksStayHit
  BY DEF StressInv
<1> QED BY <1>1, StressInitInv, StressNextInv, PTL DEF StressSpec

(* A switch that went dark stays dark until its time is over, but for the    *)
(* ports of links whose outage ended since.                                  *)
THEOREM DarkSwitchesStayDark == StressSpec => []StaysDark
<1>1. StressInv => StaysDark
  BY DEF StressInv
<1> QED BY <1>1, StressInitInv, StressNextInv, PTL DEF StressSpec
=============================================================================
