----------------------------- MODULE Discovery -----------------------------
(***************************************************************************)
(* How class ZmqOpenFlowController finds the links: the periodic sweep of  *)
(* LLDP probes, the probe of a port that has just been added, and the      *)
(* probes on their way.  Module Controller lets a probe come in at any     *)
(* time; here it has to be sent, and whether it ever is depends on what    *)
(* the sweep takes for a host port.                                        *)
(*                                                                         *)
(* The periods of the sweep (5 s, then 30 s) are abstracted to "again and  *)
(* again".  Probes of ports without a cable reach no switch and are left   *)
(* out.                                                                    *)
(***************************************************************************)
EXTENDS LinkMap, Naturals

CONSTANTS Late,     \* switches that may connect after the first sweep
          Lossy,    \* ports whose probes the link may lose
          Flaky,    \* ports that may be deleted, after the first sweep, and added back
          Swept,    \* ports with a number up to kMaxLldpProbe
          MaxFlaps  \* bound on the deletions

ASSUME DiscoveryAssumption ==
  /\ Late \subseteq Switch
  /\ Lossy \subseteq Cabled /\ Flaky \subseteq Cabled /\ Swept \subseteq Cabled
  /\ MaxFlaps \in Nat

VARIABLES
  connected,  \* DOMAIN m_switchMap
  asked,      \* switches that still owe a PORT_DESC reply
  ports,      \* m_switchPorts
  absent,     \* environment: deleted ports that have not been added back
  swept,      \* the first sweep has been
  scheduled,  \* ports with a SendSingleLldp event in the simulator's queue
  probes,     \* ports whose probe is on its way to the other end
  flaps       \* number of deletions so far

switchVars == <<connected, asked, ports>>
probeVars == <<swept, scheduled, probes>>
portVars == <<absent, flaps>>
vars == <<linkVars, switchVars, probeVars, portVars>>

PortsOf(s) == {p \in Cabled : At[p] = s}

Init ==
  /\ LinkInit
  /\ connected = {} /\ asked = {} /\ ports = {}
  /\ swept = FALSE /\ scheduled = {} /\ probes = {}
  /\ absent = {} /\ flaps = 0

-----------------------------------------------------------------------------
\* HandshakeSuccessful: the ports are asked for.
HandshakeSuccessful(s) ==
  /\ s \notin connected
  /\ connected' = connected \cup {s}
  /\ asked' = asked \cup {s}
  /\ ports' = ports \ PortsOf(s)
  /\ UNCHANGED <<linkVars, probeVars, portVars>>

HandlePortDescReply(s) ==
  /\ s \in asked
  /\ asked' = asked \ {s}
  /\ ports' = ports \cup (PortsOf(s) \ absent)
  /\ UNCHANGED <<linkVars, connected, probeVars, portVars>>

\* Mutant of TakenForHost: the test does not look for a link.
TakenForHostKnown(p) == (\E r \in Port : links[r] # None) /\ p \in ports

\* What the sweep takes for a host port: any port that is known and leads
\* nowhere yet, once there is any link at all.
TakenForHost(p) ==
  (\E r \in Port : links[r] # None) /\ p \in ports /\ p \notin linkPorts

\* TriggerLldp.  The first sweep comes half a second after the start.
TriggerLldp ==
  /\ Switch \ Late \subseteq connected
  /\ swept' = TRUE
  /\ scheduled' = scheduled \cup
       {p \in Swept : At[p] \in connected /\ ~TakenForHost(p)}
  /\ UNCHANGED <<linkVars, switchVars, probes, portVars>>

\* Mutant of SendSingleLldp: host ports are told apart when it fires.
SendSingleLldpTested(p) ==
  /\ p \in scheduled
  /\ scheduled' = scheduled \ {p}
  /\ probes' = IF p \in absent \/ TakenForHost(p) THEN probes ELSE probes \cup {p}
  /\ UNCHANGED <<linkVars, switchVars, swept, portVars>>

\* SendSingleLldp; the switch drops a frame for a port it does not have.
SendSingleLldp(p) ==
  /\ p \in scheduled
  /\ scheduled' = scheduled \ {p}
  /\ probes' = IF p \in absent THEN probes ELSE probes \cup {p}
  /\ UNCHANGED <<linkVars, switchVars, swept, portVars>>

\* HandlePacketIn for a probe: it comes in if the far port is there and its
\* switch is connected.  The near port may be gone by now.
HandleLldpPacket(p) ==
  LET q == Peer[p]
  IN  /\ p \in probes
      /\ probes' = probes \ {p}
      /\ UNCHANGED <<connected, asked, swept, scheduled, portVars>>
      /\ IF q \in absent \/ At[q] \notin connected
         THEN UNCHANGED <<linkVars, ports>>
         ELSE ports' = ports \cup {q} /\ AddLink(p, q)

ProbeLost(p) ==
  /\ p \in probes \cap Lossy
  /\ probes' = probes \ {p}
  /\ UNCHANGED <<linkVars, switchVars, swept, scheduled, portVars>>

\* Mutant of PortDeleted: the link of the port stays.
PortDeletedLinked(p) ==
  /\ swept /\ At[p] \in connected /\ p \in Flaky \ absent /\ flaps < MaxFlaps
  /\ absent' = absent \cup {p} /\ flaps' = flaps + 1
  /\ ports' = ports \ {p}
  /\ UNCHANGED <<linkVars, connected, asked, probeVars>>

\* HandlePortStatus, OFPPR_DELETE.
PortDeleted(p) ==
  /\ swept /\ At[p] \in connected /\ p \in Flaky \ absent /\ flaps < MaxFlaps
  /\ absent' = absent \cup {p} /\ flaps' = flaps + 1
  /\ ports' = ports \ {p}
  /\ RemovePort(p)
  /\ UNCHANGED <<connected, asked, probeVars>>

\* Mutant of PortAdded: the port is left to the next sweep.
PortAddedUnprobed(p) ==
  /\ p \in absent
  /\ absent' = absent \ {p}
  /\ ports' = ports \cup {p}
  /\ UNCHANGED <<linkVars, connected, asked, probeVars, flaps>>

\* HandlePortStatus, OFPPR_ADD: the port is probed at once.
PortAdded(p) ==
  /\ p \in absent
  /\ absent' = absent \ {p}
  /\ ports' = ports \cup {p}
  /\ probes' = probes \cup {p}
  /\ UNCHANGED <<linkVars, connected, asked, swept, scheduled, flaps>>

Next ==
  \/ \E s \in Switch : HandshakeSuccessful(s) \/ HandlePortDescReply(s)
  \/ TriggerLldp
  \/ \E p \in Cabled : \/ SendSingleLldp(p) \/ HandleLldpPacket(p) \/ ProbeLost(p)
                       \/ PortDeleted(p) \/ PortAdded(p)

Spec == Init /\ [][Next]_vars

\* The sweep schedules itself, the simulator runs every event it holds, and
\* messages that are not lost arrive; every switch connects in the end.
FairSpec ==
  /\ Spec
  /\ WF_vars(TriggerLldp)
  /\ \A s \in Switch : WF_vars(HandshakeSuccessful(s)) /\ WF_vars(HandlePortDescReply(s))
  /\ \A p \in Cabled : WF_vars(SendSingleLldp(p)) /\ WF_vars(HandleLldpPacket(p))

-----------------------------------------------------------------------------
TypeOK ==
  /\ LinkTypeOK
  /\ connected \in SUBSET Switch /\ asked \in SUBSET connected
  /\ ports \in SUBSET Cabled /\ absent \in SUBSET Flaky
  /\ scheduled \in SUBSET Swept /\ probes \in SUBSET Cabled
  /\ swept \in BOOLEAN /\ flaps \in 0..MaxFlaps

(* A probe that is overtaken by the deletion of the port that sent it brings *)
(* the link back although the port is gone.  That is as far as it goes: a    *)
(* recorded link has at least one end that exists and is known.             *)
OneEndThere ==
  \A p \in Cabled : links[p] # None => ~({p, Peer[p]} \subseteq absent)

(* The comment of TriggerLldp: the topology gets complete.  A cable whose    *)
(* two ends are there and whose switches are connected is discovered sooner *)
(* or later, for good.                                                      *)
DiscoveryComplete ==
  \A p \in Cabled :
    <>[](connected = Switch /\ {p, Peer[p]} \cap absent = {} => p \in linkPorts)
=============================================================================
