---------------------------- MODULE StreamAddresses ----------------------------
(***************************************************************************)
(* The ports of the standalone streams of StreamLifecycle, all on one IP.  *)
(*                                                                         *)
(* Start draws a free port, or takes the preferred one unseen, and starts  *)
(* the stream program with it; the program binds the port some time later. *)
(* NewStream takes any program that accepts a connection at the port for   *)
(* its own, and from then on the server sends the announcements and the    *)
(* clients of the stream to that address.  The program itself is not part  *)
(* of the repository: it listens at the address it was started with, or    *)
(* exits with an error when it cannot.  Whatever the streams do is an      *)
(* action of StreamLifecycle under the conditions the ports add to it.     *)
(* Patches, which touch rows only, are left out.                           *)
(***************************************************************************)
EXTENDS StreamLifecycle

CONSTANTS
    Ports,       \* ports the operating system gives out
    Preferences  \* preferred ports of the NewStream requests; 0 for none

ASSUME AddressesAssumption ==
    /\ Ports \subseteq Nat \ {0}
    /\ Preferences \subseteq Ports \cup {0}
    /\ Modes = {"standalone_app"}
    /\ Patchers = {}

VARIABLES
    preferred,  \* preferred[s]: cfg.Launch.PreferredPort
    port,       \* port[s]: the port s was started with, 0 before
    bound,      \* streams whose program listens at its port
    overlap     \* overlap[s]: streams not listening yet when one of the two picked
                \* its port (history)

portVars == <<preferred, port, bound, overlap>>
addressVars == <<vars, portVars>>

Running == {s \in Streams : process[s] = "running"}

\* The program that answers at a port: at most one, as Binds keeps it.
Answers(p) == {s \in bound : port[s] = p}

AddressesTypeOK ==
    /\ preferred \in [Streams -> Preferences]
    /\ port \in [Streams -> Ports \cup {0}]
    /\ bound \subseteq Running
    /\ overlap \in [Streams -> SUBSET Streams]
    /\ \A p \in Ports : Cardinality(Answers(p)) <= 1

AddressesInit ==
    /\ Init
    /\ preferred \in [Streams -> Preferences]
    /\ port = [s \in Streams |-> 0]
    /\ bound = {}
    /\ overlap = [s \in Streams |-> {}]

-----------------------------------------------------------------------------
FreePortUnprobed(p) == p \in Ports

\* The operating system gives out a port nobody listens at.
FreePort(p) == Answers(p) = {}

\* The port of Start.
PicksPort(s, p) == IF preferred[s] = 0 THEN FreePort(p) ELSE p = preferred[s]

\* The programs that are about to listen; no port shows what they will take.
Starting == Running \ bound

LaunchAt(s) ==
    /\ Launch(s)
    /\ \E p \in Ports : PicksPort(s, p) /\ port' = [port EXCEPT ![s] = p]
    /\ overlap' = [t \in Streams |->
                      IF t = s THEN Starting ELSE IF t \in Starting THEN overlap[t] \cup {s}
                                                  ELSE overlap[t]]
    /\ UNCHANGED <<preferred, bound>>

BindsMutant(s) ==
    /\ s \in Starting
    /\ bound' = bound \cup {s}
    /\ UNCHANGED <<vars, preferred, port, overlap>>

\* The program listens.
Binds(s) ==
    /\ s \in Starting
    /\ Answers(port[s]) = {}
    /\ bound' = bound \cup {s}
    /\ UNCHANGED <<vars, preferred, port, overlap>>

\* The port is taken, and the program gives up.
BindFails(s) ==
    /\ s \in Starting
    /\ Answers(port[s]) # {}
    /\ process' = [process EXCEPT ![s] = "failed"]
    /\ UNCHANGED <<streams, row, launchVars, waiter, listener, killVars, patchVars, portVars>>

BindStep(s) == Binds(s) \/ BindFails(s)

\* A dial gets through to whoever listens at the address.
Dials(s) ==
    /\ \/ Connected(s) /\ Answers(port[s]) # {}
       \/ ConnectRetry(s) /\ Answers(port[s]) = {}
    /\ UNCHANGED portVars

\* A program that has ended listens no more.
OtherStep(s) ==
    /\ \/ LaunchFails(s)
       \/ GiveUp(s) \/ StoreRow(s) \/ StoreRowFails(s) \/ Aborted(s) \/ Register(s)
       \/ AnnounceHost(s)
       \/ ProcessExits(s) \/ WaitReturns(s) \/ Interrupt(s)
       \/ \E f \in Finishers : FinishStream(s, f)
       \/ \E k \in Killers : KillStep(s, k)
    /\ bound' = {t \in bound : process'[t] = "running"}
    /\ UNCHANGED <<preferred, port, overlap>>

AddressesNext ==
    \/ \E s \in Streams : LaunchAt(s) \/ BindStep(s) \/ Dials(s) \/ OtherStep(s)
    \/ Crash /\ UNCHANGED portVars

AddressesSpec == AddressesInit /\ [][AddressesNext]_addressVars

\* The goroutines of StreamLifecycle are scheduled as far as they do not call bolt, and
\* a program that was started tries to listen.
FairAddressesSpec ==
    AddressesSpec /\ Fairness /\ \A s \in Streams : WF_addressVars(BindStep(s))

-----------------------------------------------------------------------------
\* StreamAddress, which the clients of a stream are redirected to.
StreamAddress(s) == IF s \in streams THEN {port[s]} ELSE {}

\* Whom a request for the stream ends up with.
Reached(s) == UNION {Answers(p) : p \in StreamAddress(s)}

\* As long as the program of a stream runs, its address is answered by no other
\* stream, for free ports: only two launches that overlap, the one picking its port
\* while the other is not listening yet, can mix up their programs.
OwnProgramAnswers ==
    \A s \in streams \cap Running : \A t \in Reached(s) \ {s} :
        t \in overlap[s] \/ preferred[s] # 0 \/ preferred[t] # 0

\* A mixup does not last: the program that has lost its port is noticed, or listens
\* after all, unless the failure came before there was a stream to end or the program
\* ended without an error.
MixedUp(s) ==
    /\ s \in streams
    /\ listener[s] = "listening"
    /\ s \in Starting
    /\ Reached(s) # {}

MixupEnds ==
    \A s \in Streams :
        MixedUp(s) ~> s \notin streams \/ s \in bound \/ process[s] = "clean"
=============================================================================
