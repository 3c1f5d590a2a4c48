------------------------------ MODULE UiServers ------------------------------
(***************************************************************************)
(* The three server threads of the user interface (class Ctrl of UI.py),   *)
(* which share one Event, and the QEMU processes that connect to them.     *)
(* The button "Lancer" sets the event; a thread that sees it set listens   *)
(* on the port of its entry, accepts one connection, serves it until QEMU  *)
(* closes it, and clears the event.                                        *)
(*                                                                         *)
(* A listening socket stays open after the session: accept stores it in    *)
(* the controller, and only the next accept of the same thread replaces    *)
(* it.  The kernel completes a connection to a listening socket before     *)
(* anyone accepts it.                                                      *)
(***************************************************************************)
EXTENDS Naturals, Sequences, FiniteSets

CONSTANTS
    Ports,        \* port numbers, without 0
    DefaultPort,  \* the initial text of the three entries
    MaxClicks,    \* clicks on "Lancer"
    MaxEdits,     \* changes of an entry
    MaxRuns       \* QEMU processes, one after the other

Threads == {"verte", "bleue", "bouton"}

ASSUME PortsAssumption ==
    /\ Ports \subseteq Nat \ {0} /\ DefaultPort \in [Threads -> Ports]
    /\ \A s, t \in Threads : s # t => DefaultPort[s] # DefaultPort[t]
ASSUME BoundsAssumption == MaxClicks \in Nat /\ MaxEdits \in Nat /\ MaxRuns \in Nat

VARIABLES
    event,     \* the flag of the shared Event
    pc,        \* where each thread is; "dead" after an exception
    entry,     \* port shown in the entry of each thread
    fresh,     \* the socket launch_server listens on, 0 if none
    kept,      \* the socket stored in the controller, 0 if none
    backlog,   \* connections the kernel completed, by port
    conn,      \* the connection a thread accepted last
    run,       \* number of the QEMU process; a connection is named by it
    qemu,      \* what it does: "off", the thread it connects to next, or "up"
    qport,     \* the ports on its command line
    clicks, edits,
    early,     \* history: a QEMU was started before all threads had listened
    listened   \* history: threads that have listened

ui == <<event, pc, entry, fresh, kept, conn, clicks, edits>>
vars == <<ui, backlog, run, qemu, qport, early, listened>>

Listening(p) == \E t \in Threads : p \in {fresh[t], kept[t]}
Alive(r) == r = run /\ qemu # "off"

Init ==
    /\ event = 0
    /\ pc = [t \in Threads |-> "wait"]
    /\ entry = DefaultPort
    /\ fresh = [t \in Threads |-> 0]
    /\ kept = [t \in Threads |-> 0]
    /\ backlog = [p \in Ports |-> <<>>]
    /\ conn = [t \in Threads |-> 0]
    /\ run = 0 /\ qemu = "off" /\ qport = DefaultPort
    /\ clicks = 0 /\ edits = 0
    /\ early = 0 /\ listened = {}

-----------------------------------------------------------------------------
(* The user.                                                               *)

OnButtonLancerClick ==
    /\ clicks < MaxClicks /\ clicks' = clicks + 1
    /\ event' = 1
    /\ UNCHANGED <<pc, entry, fresh, kept, conn, edits, backlog, run, qemu, qport,
                   early, listened>>

EditPort(t, p) ==
    /\ edits < MaxEdits /\ edits' = edits + 1
    /\ entry' = [entry EXCEPT ![t] = p]
    /\ UNCHANGED <<event, pc, fresh, kept, conn, clicks, backlog, run, qemu, qport,
                   early, listened>>

\* A new QEMU, with the default ports or those the entries show
StartQemu ==
    /\ qemu = "off" /\ run < MaxRuns
    /\ run' = run + 1 /\ qemu' = "verte"
    /\ qport' \in {DefaultPort, entry}
    /\ early' = IF listened # Threads THEN 1 ELSE early
    /\ UNCHANGED <<ui, backlog, listened>>

-----------------------------------------------------------------------------
(* QEMU opens its chardevs in the order of the command line; one that is   *)
(* refused ends it, and so may anything else later.                        *)

NextAfter(t) == CASE t = "verte" -> "bleue" [] t = "bleue" -> "bouton" [] t = "bouton" -> "up"

Connect ==
    /\ qemu \in Threads
    /\ \/ /\ Listening(qport[qemu])
          /\ backlog' = [backlog EXCEPT ![qport[qemu]] = Append(@, run)]
          /\ qemu' = NextAfter(qemu)
       \/ /\ ~Listening(qport[qemu])
          /\ qemu' = "off" /\ UNCHANGED backlog
    /\ UNCHANGED <<ui, run, qport, early, listened>>

QemuExits ==
    /\ qemu = "up" /\ qemu' = "off"
    /\ UNCHANGED <<ui, backlog, run, qport, early, listened>>

-----------------------------------------------------------------------------
(* A server thread: fct_thread and launch_server.                          *)

\* while not self.event.isSet(): self.event.wait()
WaitClears(t) ==  \* mutant: the event is cleared by the thread that sees it first
    /\ pc[t] = "wait" /\ event = 1
    /\ event' = 0
    /\ pc' = [pc EXCEPT ![t] = "bind"]
    /\ UNCHANGED <<entry, fresh, kept, conn, clicks, edits, backlog, run, qemu, qport,
                   early, listened>>
Wait(t) ==
    /\ pc[t] = "wait" /\ event = 1
    /\ pc' = [pc EXCEPT ![t] = "bind"]
    /\ UNCHANGED <<event, entry, fresh, kept, conn, clicks, edits, backlog, run,
                   qemu, qport, early, listened>>

BindAnyway(t) ==  \* mutant: a port in use is shared
    /\ pc[t] = "bind"
    /\ pc' = [pc EXCEPT ![t] = "accept"]
    /\ fresh' = [fresh EXCEPT ![t] = entry[t]]
    /\ listened' = listened \cup {t}
    /\ UNCHANGED <<event, entry, kept, conn, clicks, edits, backlog, run, qemu, qport, early>>

\* bind and listen; a port in use raises, and nothing in the thread catches it
Bind(t) ==
    /\ pc[t] = "bind"
    /\ \/ /\ ~Listening(entry[t])
          /\ pc' = [pc EXCEPT ![t] = "accept"]
          /\ fresh' = [fresh EXCEPT ![t] = entry[t]]
          /\ listened' = listened \cup {t}
       \/ /\ Listening(entry[t])
          /\ pc' = [pc EXCEPT ![t] = "dead"]
          /\ UNCHANGED <<fresh, listened>>
    /\ UNCHANGED <<event, entry, kept, conn, clicks, edits, backlog, run, qemu, qport, early>>

\* accept, and the socket replaces the one of the session before, which closes
Accept(t) ==
    /\ pc[t] = "accept" /\ backlog[fresh[t]] # <<>>
    /\ conn' = [conn EXCEPT ![t] = Head(backlog[fresh[t]])]
    /\ backlog' = [p \in Ports |-> IF p = fresh[t] THEN Tail(backlog[p])
                                   ELSE IF p = kept[t] THEN <<>> ELSE backlog[p]]
    /\ kept' = [kept EXCEPT ![t] = fresh[t]]
    /\ fresh' = [fresh EXCEPT ![t] = 0]
    /\ pc' = [pc EXCEPT ![t] = "serve"]
    /\ UNCHANGED <<event, entry, clicks, edits, run, qemu, qport, early, listened>>

\* traiterrecv returns when QEMU has closed the connection
EndOfSession(t) ==
    /\ pc[t] = "serve" /\ ~Alive(conn[t])
    /\ pc' = [pc EXCEPT ![t] = "clear"]
    /\ UNCHANGED <<event, entry, fresh, kept, conn, clicks, edits, backlog, run,
                   qemu, qport, early, listened>>

ClearNot(t) ==  \* mutant: the event stays set
    /\ pc[t] = "clear"
    /\ pc' = [pc EXCEPT ![t] = "wait"]
    /\ UNCHANGED <<event, entry, fresh, kept, conn, clicks, edits, backlog, run, qemu,
                   qport, early, listened>>

\* self.event.clear()
Clear(t) ==
    /\ pc[t] = "clear"
    /\ event' = 0
    /\ pc' = [pc EXCEPT ![t] = "wait"]
    /\ UNCHANGED <<entry, fresh, kept, conn, clicks, edits, backlog, run, qemu,
                   qport, early, listened>>

Server(t) == Wait(t) \/ Bind(t) \/ Accept(t) \/ EndOfSession(t) \/ Clear(t)

Next ==
    \/ OnButtonLancerClick
    \/ \E t \in Threads, p \in Ports : EditPort(t, p)
    \/ StartQemu \/ Connect \/ QemuExits
    \/ \E t \in Threads : Server(t)

Spec == Init /\ [][Next]_vars

\* The threads of the UI and a QEMU that is starting keep running.
FairSpec == Spec /\ WF_vars(Connect) /\ \A t \in Threads : WF_vars(Server(t))
-----------------------------------------------------------------------------
\* Types of the event, the threads, the sockets and the QEMU process.
TypeOK ==
    /\ event \in {0, 1}
    /\ pc \in [Threads -> {"wait", "bind", "accept", "serve", "clear", "dead"}]
    /\ entry \in [Threads -> Ports]
    /\ fresh \in [Threads -> Ports \cup {0}]
    /\ kept \in [Threads -> Ports \cup {0}]
    /\ backlog \in [Ports -> Seq(1..MaxRuns)]
    /\ conn \in [Threads -> 0..MaxRuns]
    /\ run \in 0..MaxRuns
    /\ qemu \in Threads \cup {"off", "up"}
    /\ qport \in [Threads -> Ports]
    /\ clicks \in 0..MaxClicks /\ edits \in 0..MaxEdits
    /\ early \in 0..1 /\ listened \subseteq Threads

\* One click never starts a thread twice: however the ends of the three
\* sessions interleave, each thread has cleared the event before it looks at
\* it again, so no thread runs into its own socket and dies.
FirstLaunchKillsNone ==
    clicks <= 1 /\ edits = 0 => \A t \in Threads : pc[t] # "dead"

\* As long as the entries are not changed a thread accepts one connection in
\* its life: the socket it keeps makes the next launch fail.  This is why the
\* client has to be restarted between two tests.
OneSessionPerPort ==
    edits = 0 => \A t \in Threads : pc[t] = "accept" => kept[t] = 0

\* A click puts all three sockets in listening state, unless a QEMU was
\* started before they were, or a thread found its port taken.
FirstLaunchListens ==
    clicks > 0 ~> \/ early = 1
                  \/ \A t \in Threads : t \in listened \/ pc[t] = "dead"

\* A click on "Lancer" puts the sockets in listening state.
LaunchListens ==
    clicks > 0 ~> \A t \in Threads : t \in listened \/ pc[t] = "dead"
=============================================================================
