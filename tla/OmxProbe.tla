------------------------------ MODULE OmxProbe ------------------------------
(***************************************************************************)
(* media/H264Encoder.cpp: test lists the OpenMAX components of the media    *)
(* service, allocates a node of the first AVC encoder and configures its    *)
(* two ports.  No status is looked at, and mNode has no initial value.  The *)
(* service is external; node 0 is of another of its clients.                *)
(***************************************************************************)
EXTENDS Naturals, Sequences

CONSTANTS
    MaxRoles,       \* bound: roles that the service lists
    MaxProbes       \* bound: calls of test

ASSUME ProbeAssumption == {MaxRoles, MaxProbes} \subseteq Nat \ {0}

VARIABLES
    probe,          \* where test is
    probes,         \* calls of test so far
    roles,          \* the listed roles not yet looked at: is it video_encoder.avc?
    found,
    mNode,
    nodes,          \* nodes allocated by this object
    portDefn,       \* the local definition that goes to and fro
    ports,          \* the definition of each port of each node
    misread         \* history: ports for which a getParameter has failed

probeVars == <<probe, probes, roles, found, mNode, nodes, portDefn, ports, misread>>

OtherNode == 0
NoNode == MaxProbes + 1
Nodes == OtherNode..MaxProbes
Ports == {"in", "out"}

\* The frame's width, which is asked of the ports, stands for all that test writes,
\* and rest for what it only reads, by the port it came from.
Defn == [width : {"stack", "own", "asked", "sentinel"}, rest : Ports \cup {"stack"}]

ProbeTypeOK ==
    /\ probe \in {"new", "crashed", "idle", "list", "getIn", "setIn", "getBack",
                 "getOut", "setOut"}
    /\ probes \in 0..MaxProbes
    /\ roles \in Seq(BOOLEAN)
    /\ found \in BOOLEAN
    /\ mNode \in Nodes \cup {NoNode}
    /\ nodes \in 0..MaxProbes
    /\ portDefn \in Defn
    /\ ports \in [Nodes \X Ports -> Defn]
    /\ misread \subseteq Nodes \X Ports

\* The memory of mNode may happen to hold the number of a node.
ProbeInit ==
    /\ probe = "new"
    /\ probes = 0
    /\ roles = <<>>
    /\ found = FALSE
    /\ mNode \in {OtherNode, NoNode}
    /\ nodes = 0
    /\ portDefn = [width |-> "stack", rest |-> "stack"]
    /\ ports = [np \in Nodes \X Ports |-> [width |-> "own", rest |-> np[2]]]
    /\ misread = {}

ProbeGoes(from, to) == probe = from /\ probe' = to
-----------------------------------------------------------------------------
\* init.  Without the media service mediaPlayerService is null, and is used.
Connect ==
    /\ ProbeGoes("new", "idle") \/ ProbeGoes("new", "crashed")
    /\ UNCHANGED <<probes, roles, found, mNode, nodes, portDefn, ports, misread>>

(* list_component.                                                           *)

\* listNodes; if it fails the list stays empty.
ListNodes ==
    /\ ProbeGoes("idle", "list")
    /\ probes < MaxProbes
    /\ probes' = probes + 1
    /\ \E n \in 0..MaxRoles : roles' \in [1..n -> BOOLEAN]
    /\ found' = FALSE
    /\ UNCHANGED <<mNode, nodes, portDefn, ports, misread>>

\* The proxy's allocateNode may clear the node when it fails.
AllocateNode ==
    \/ nodes' = nodes + 1 /\ mNode' = nodes'
    \/ mNode' \in {mNode, NoNode} /\ UNCHANGED nodes

\* Mutation: every AVC encoder listed is allocated.
VisitRoleEach ==
    /\ probe = "list" /\ roles # <<>>
    /\ roles' = Tail(roles)
    /\ found' = (found \/ Head(roles))
    /\ IF Head(roles) /\ nodes < MaxProbes THEN AllocateNode ELSE UNCHANGED <<mNode, nodes>>
    /\ UNCHANGED <<probe, probes, portDefn, ports, misread>>

VisitRole ==
    /\ probe = "list" /\ roles # <<>>
    /\ roles' = Tail(roles)
    /\ found' = (found \/ Head(roles))
    /\ IF Head(roles) /\ ~found THEN AllocateNode ELSE UNCHANGED <<mNode, nodes>>
    /\ UNCHANGED <<probe, probes, portDefn, ports, misread>>

\* Then configComponent has a new portDefn on its stack.
EndOfList ==
    /\ ProbeGoes("list", "getIn")
    /\ roles = <<>>
    /\ portDefn' = [width |-> "stack", rest |-> "stack"]
    /\ UNCHANGED <<probes, roles, found, mNode, nodes, ports, misread>>
-----------------------------------------------------------------------------
(* configComponent.                                                          *)

Allocated == mNode \in OtherNode..nodes

\* getParameter writes defn only if it succeeds.
GetParameter(port, defn) ==
    /\ \/ /\ Allocated
          /\ portDefn' = ports[<<mNode, port>>]
          /\ UNCHANGED misread
       \/ /\ portDefn' = defn
          /\ misread' = IF Allocated THEN misread \cup {<<mNode, port>>} ELSE misread
    /\ UNCHANGED <<probes, roles, found, mNode, nodes, ports>>

SetParameter(port, defn) ==
    /\ portDefn' = defn
    /\ \/ Allocated /\ ports' = [ports EXCEPT ![<<mNode, port>>] = defn]
       \/ UNCHANGED ports
    /\ UNCHANGED <<probes, roles, found, mNode, nodes, misread>>

AskWidth == [portDefn EXCEPT !.width = "asked"]

GetIn == ProbeGoes("getIn", "setIn") /\ GetParameter("in", portDefn)
SetIn == ProbeGoes("setIn", "getBack") /\ SetParameter("in", AskWidth)

\* The width 555 shows whether getParameter wrote anything.
GetBack ==
    ProbeGoes("getBack", "getOut") /\ GetParameter("in", [portDefn EXCEPT !.width = "sentinel"])

\* Mutation: the output port is set from what was read of the input port.
GetOutForgotten ==
    /\ ProbeGoes("getOut", "setOut")
    /\ UNCHANGED <<probes, roles, found, mNode, nodes, portDefn, ports, misread>>

GetOut == ProbeGoes("getOut", "setOut") /\ GetParameter("out", portDefn)

\* Mutation: the output port is given the width that was read, not the one asked.
SetOutUnasked == ProbeGoes("setOut", "idle") /\ SetParameter("out", portDefn)

SetOut == ProbeGoes("setOut", "idle") /\ SetParameter("out", AskWidth)

ConfigComponent ==
    \/ GetIn
    \/ SetIn
    \/ GetBack
    \/ GetOut
    \/ SetOut

\* test is called again or not.
ProbeRests == probe \in {"idle", "crashed"} /\ UNCHANGED probeVars

Probe ==
    \/ Connect
    \/ ListNodes
    \/ VisitRole
    \/ EndOfList
    \/ ConfigComponent
    \/ ProbeRests
-----------------------------------------------------------------------------
(* Properties.                                                               *)

\* One node is allocated for each listing, however many roles and AVC encoders it
\* has (none is ever freed), and once there is one, the garbage that mNode started
\* with is gone: no call reaches the node of another client.
OwnNodeOnly ==
    /\ nodes <= probes
    /\ nodes > 0 => mNode # OtherNode

\* Whatever calls fail, the width 555 of line 140 never reaches a port, and a port gets
\* what was read of another port, or of nothing, only if a getParameter of its own
\* has failed, which nobody notices.
PortsKeepTheirOwn ==
    \A np \in Nodes \X Ports :
        /\ ports[np].width \in {"own", "asked"}
        /\ ports[np].rest # np[2] => np \in misread
=============================================================================
