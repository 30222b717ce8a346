-------------------------------- MODULE Ports --------------------------------
(***************************************************************************)
(* internal/netutil/port.go: the registry of ports, and the listeners that *)
(* ask the kernel for one.                                                 *)
(*                                                                         *)
(* An owner is a goroutine that allocates a pair of ports for a stack.     *)
(* Owners of one operating system process share a registry; several test   *)
(* binaries on a machine have one each and share only the kernel's ports.  *)
(***************************************************************************)
EXTENDS Integers, FiniteSets

CONSTANTS
    Owners,           \* who allocates
    Reg,              \* the registry an owner uses, a function on Owners
    PortNos,          \* port numbers
    NoPort,           \* 0 in the code
    MaxPortRetries    \* maxPortRetries (20 in the code)

ASSUME NoPortAssumption == NoPort \notin PortNos
ASSUME PortRetriesAssumption == MaxPortRetries \in Nat \ {0}

VARIABLES
    ports,      \* r.ports of every registry
    lst,        \* the port an owner's probe listener is open on
    apc,        \* the place in AllocatePortPair
    tries,      \* failed calls of tryAllocate for the current port
    kport,      \* the first port of the pair, s.kinePort
    aport       \* the second one, s.apiPort

portVars == <<ports, lst, apc, tries, kport, aport>>

Regs == {Reg[o] : o \in Owners}
MaybePort == PortNos \cup {NoPort}
AllocPC == {"no", "listen", "reserve", "close", "undo", "ok", "err"}

PortsInit ==
    /\ ports = [r \in Regs |-> {}]
    /\ lst = [o \in Owners |-> NoPort]
    /\ apc = [o \in Owners |-> "no"]
    /\ tries = [o \in Owners |-> 0]
    /\ kport = [o \in Owners |-> NoPort]
    /\ aport = [o \in Owners |-> NoPort]

AllocTo(o, place) == apc' = [apc EXCEPT ![o] = place]

AllocCall(o) ==
    /\ apc[o] = "no"
    /\ AllocTo(o, "listen")
    /\ UNCHANGED <<ports, lst, tries, kport, aport>>

(* net.ListenTCP on port 0: the kernel gives a port nobody is bound to.    *)
Listen(o, p) ==
    /\ apc[o] = "listen"
    /\ lst' = [lst EXCEPT ![o] = p]
    /\ AllocTo(o, "reserve")
    /\ UNCHANGED <<ports, tries, kport, aport>>

ListenErr(o) ==
    /\ apc[o] = "listen"
    /\ AllocTo(o, "undo")
    /\ UNCHANGED <<ports, lst, tries, kport, aport>>

\* Fault: a port that is already registered is taken as well.
Reserve_Unchecked(o) ==
    /\ apc[o] = "reserve"
    /\ ports' = [ports EXCEPT ![Reg[o]] = @ \cup {lst[o]}]
    /\ AllocTo(o, "close")
    /\ UNCHANGED <<lst, tries, kport, aport>>

(* reserve: a port somebody else has registered is given back, and after   *)
(* MaxPortRetries such ports the allocation fails.                         *)
Reserve(o) ==
    LET taken == lst[o] \in ports[Reg[o]] IN
    /\ apc[o] = "reserve"
    /\ ports' = [ports EXCEPT ![Reg[o]] = @ \cup {lst[o]}]
    /\ lst' = IF taken THEN [lst EXCEPT ![o] = NoPort] ELSE lst
    /\ tries' = IF taken THEN [tries EXCEPT ![o] = @ + 1] ELSE tries
    /\ AllocTo(o, IF ~taken THEN "close"
                  ELSE IF tries[o] + 1 < MaxPortRetries THEN "listen" ELSE "undo")
    /\ UNCHANGED <<kport, aport>>

(* The listener is closed; now the port is free for the process it is for, *)
(* and for everybody else.                                                 *)
ListenerClose(o) ==
    LET first == kport[o] = NoPort IN
    /\ apc[o] = "close"
    /\ lst' = [lst EXCEPT ![o] = NoPort]
    /\ tries' = [tries EXCEPT ![o] = 0]
    /\ kport' = IF first THEN [kport EXCEPT ![o] = lst[o]] ELSE kport
    /\ aport' = IF first THEN aport ELSE [aport EXCEPT ![o] = lst[o]]
    /\ AllocTo(o, IF first THEN "listen" ELSE "ok")
    /\ UNCHANGED ports

(* Closing the listener fails: the port is released again.                 *)
ListenerCloseErr(o) ==
    /\ apc[o] = "close"
    /\ ports' = [ports EXCEPT ![Reg[o]] = @ \ {lst[o]}]
    /\ lst' = [lst EXCEPT ![o] = NoPort]
    /\ AllocTo(o, "undo")
    /\ UNCHANGED <<tries, kport, aport>>

\* Fault: the first port is not released when the second cannot be had.
AllocUndo_Leak(o) ==
    /\ apc[o] = "undo"
    /\ kport' = [kport EXCEPT ![o] = NoPort]
    /\ tries' = [tries EXCEPT ![o] = 0]
    /\ AllocTo(o, "err")
    /\ UNCHANGED <<ports, lst, aport>>

(* AllocatePortPair fails: a first port it already has is released.        *)
AllocUndo(o) ==
    /\ apc[o] = "undo"
    /\ ports' = [ports EXCEPT ![Reg[o]] = @ \ {kport[o]}]
    /\ kport' = [kport EXCEPT ![o] = NoPort]
    /\ tries' = [tries EXCEPT ![o] = 0]
    /\ AllocTo(o, "err")
    /\ UNCHANGED <<lst, aport>>

AllocConsume(o) ==
    /\ apc[o] \in {"ok", "err"}
    /\ AllocTo(o, "no")
    /\ UNCHANGED <<ports, lst, tries, kport, aport>>

AllocStep(o) ==
    \/ ListenErr(o) \/ Reserve(o) \/ ListenerClose(o) \/ ListenerCloseErr(o)
    \/ AllocUndo(o)

(* Release of the port of kine, and of the port of the API server.         *)
ReleaseKinePort(o) ==
    /\ ports' = [ports EXCEPT ![Reg[o]] = @ \ {kport[o]}]
    /\ kport' = [kport EXCEPT ![o] = NoPort]
    /\ UNCHANGED <<lst, apc, tries, aport>>

ReleaseAPIPort(o) ==
    /\ ports' = [ports EXCEPT ![Reg[o]] = @ \ {aport[o]}]
    /\ aport' = [aport EXCEPT ![o] = NoPort]
    /\ UNCHANGED <<lst, apc, tries, kport>>

-----------------------------------------------------------------------------
(* The ports an owner has registered: its pair, and one it is allocating.  *)
HeldPorts(o) ==
    ({kport[o], aport[o]} \cup (IF apc[o] = "close" THEN {lst[o]} ELSE {})) \ {NoPort}

PortsTypeOK ==
    /\ ports \in [Regs -> SUBSET PortNos]
    /\ lst \in [Owners -> MaybePort]
    /\ apc \in [Owners -> AllocPC]
    /\ tries \in [Owners -> 0 .. MaxPortRetries]
    /\ kport \in [Owners -> MaybePort]
    /\ aport \in [Owners -> MaybePort]

(* A registry holds exactly the ports of its owners: no error path of      *)
(* AllocatePortPair or of a stack's start and stop leaks a port.           *)
RegistryExact ==
    \A r \in Regs : ports[r] = UNION {HeldPorts(o) : o \in {u \in Owners : Reg[u] = r}}

(* AllocatePortPair returns two distinct ports, and never a port that      *)
(* another stack of the same process still has (port.go:19-25).            *)
PortsDistinct ==
    \A o \in Owners :
        /\ kport[o] # NoPort => kport[o] # aport[o]
        /\ apc[o] = "close" => lst[o] \notin {kport[o], aport[o]}
        /\ \A u \in Owners :
              u # o /\ Reg[u] = Reg[o] => HeldPorts(u) \cap HeldPorts(o) = {}

=============================================================================
