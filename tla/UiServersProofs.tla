--------------------------- MODULE UiServersProofs ---------------------------
(***************************************************************************)
(* Proofs that the safety properties of UiServers hold for any ports and   *)
(* any number of clicks, changes of the entries and runs of QEMU.          *)
(***************************************************************************)
EXTENDS UiServers, TLAPS

(* While the entries are not changed, a thread only ever uses its own      *)
(* port, and one that listens has not kept a socket.                       *)
OwnPort ==
    edits = 0 =>
      /\ entry = DefaultPort
      /\ \A t \in Threads :
            /\ fresh[t] \in {0, entry[t]} /\ kept[t] \in {0, entry[t]}
            /\ pc[t] = "accept" => kept[t] = 0

(* Until the second click, a thread that has kept a socket is in its       *)
(* session, or has cleared the event and waits.                            *)
OneLaunch ==
    clicks <= 1 /\ edits = 0 =>
      /\ clicks = 0 =>
            event = 0 /\ \A t \in Threads : pc[t] = "wait" /\ kept[t] = 0
      /\ \A t \in Threads :
            /\ pc[t] # "dead"
            /\ pc[t] = "wait" => fresh[t] = 0 /\ (kept[t] # 0 => event = 0)
            /\ pc[t] = "bind" => fresh[t] = 0 /\ kept[t] = 0

(* A thread has a fresh socket exactly while it waits for a connection.    *)
FreshWhileAccepting ==
    \A t \in Threads : fresh[t] # 0 <=> pc[t] = "accept"

(* A QEMU that runs has been counted. *)
RunCounted == qemu # "off" => run >= 1

(* The inductive invariant. *)
UInv == TypeOK /\ RunCounted /\ FreshWhileAccepting /\ OwnPort /\ OneLaunch

(* It holds at start-up. *)
LEMMA InitUInv == Init => UInv
BY PortsAssumption, BoundsAssumption
DEF Init, UInv, TypeOK, RunCounted, FreshWhileAccepting, OwnPort, OneLaunch, Threads

(* The steps of the user and of QEMU change no socket. *)
LEMMA OutsideUInv ==
    ASSUME UInv, OnButtonLancerClick \/ StartQemu \/ Connect \/ QemuExits
    PROVE  UInv'
<1>1. CASE OnButtonLancerClick
      BY <1>1, BoundsAssumption DEF OnButtonLancerClick, UInv, TypeOK,
         RunCounted, FreshWhileAccepting, OwnPort, OneLaunch
<1>2. CASE StartQemu
      BY <1>2, PortsAssumption, BoundsAssumption DEF StartQemu, ui, UInv, TypeOK,
         RunCounted, FreshWhileAccepting, OwnPort, OneLaunch, Threads
<1>3. CASE Connect
  <2>1. /\ UNCHANGED <<event, pc, entry, fresh, kept, conn, clicks, edits, run, qport,
                       early, listened>>
        BY <1>3 DEF Connect, ui
  <2>2. backlog' \in [Ports -> Seq(1..MaxRuns)]
    <3>1. CASE UNCHANGED backlog
          BY <3>1 DEF UInv, TypeOK
    <3>2. CASE backlog' = [backlog EXCEPT ![qport[qemu]] = Append(@, run)]
      <4>1. run \in 1..MaxRuns /\ qport[qemu] \in Ports
            BY <1>3, BoundsAssumption DEF Connect, UInv, TypeOK, RunCounted, Threads
      <4>2. backlog[qport[qemu]] \in Seq(1..MaxRuns)
            BY <4>1 DEF UInv, TypeOK
      <4>3. Append(backlog[qport[qemu]], run) \in Seq(1..MaxRuns)
            BY <4>1, <4>2
      <4> QED BY <3>2, <4>3 DEF UInv, TypeOK
    <3> QED BY <1>3, <3>1, <3>2 DEF Connect
  <2>3. qemu' \in Threads \cup {"off", "up"} /\ run >= 1
        BY <1>3 DEF Connect, NextAfter, Threads, UInv, RunCounted
  <2> QED BY <2>1, <2>2, <2>3 DEF UInv, TypeOK, RunCounted, FreshWhileAccepting,
                                  OwnPort, OneLaunch
<1>4. CASE QemuExits
      BY <1>4 DEF QemuExits, ui, UInv, TypeOK, RunCounted, FreshWhileAccepting, OwnPort, OneLaunch
<1> QED BY <1>1, <1>2, <1>3, <1>4

(* A changed entry ends what OwnPort and OneLaunch promise. *)
LEMMA EditUInv ==
    ASSUME UInv, NEW t \in Threads, NEW p \in Ports, EditPort(t, p)
    PROVE  UInv'
<1>1. edits' # 0 /\ edits' \in 0..MaxEdits /\ entry' \in [Threads -> Ports]
      BY BoundsAssumption DEF EditPort, UInv, TypeOK
<1> QED BY <1>1 DEF EditPort, UInv, TypeOK, RunCounted, FreshWhileAccepting,
                    OwnPort, OneLaunch

(* bind: a thread that has kept a socket finds its own port taken, and     *)
(* no other thread has that port.                                          *)
LEMMA BindUInv ==
    ASSUME UInv, NEW t \in Threads, Bind(t)
    PROVE  UInv'
<1>1. fresh[t] = 0 /\ entry[t] \in Ports /\ entry[t] # 0
      BY PortsAssumption DEF Bind, UInv, TypeOK, FreshWhileAccepting
<1>2. CASE ~Listening(entry[t])
  <2>1. /\ pc' = [pc EXCEPT ![t] = "accept"] /\ fresh' = [fresh EXCEPT ![t] = entry[t]]
        /\ listened' = listened \cup {t} /\ kept[t] # entry[t]
        /\ UNCHANGED <<event, entry, kept, conn, clicks, edits, backlog, run, qemu,
                       qport, early>>
        BY <1>2 DEF Bind, Listening
  <2>2. TypeOK' /\ RunCounted' /\ FreshWhileAccepting'
        BY <1>1, <2>1 DEF UInv, TypeOK, RunCounted, FreshWhileAccepting
  <2>3. OwnPort'
        BY <1>1, <2>1 DEF UInv, TypeOK, OwnPort
  <2>4. OneLaunch'
        BY <1>1, <2>1 DEF Bind, UInv, TypeOK, OneLaunch
  <2> QED BY <2>2, <2>3, <2>4 DEF UInv
<1>3. CASE Listening(entry[t])
  <2>1. /\ pc' = [pc EXCEPT ![t] = "dead"]
        /\ UNCHANGED <<event, entry, fresh, kept, conn, clicks, edits, backlog, run, qemu,
                       qport, early, listened>>
        BY <1>3 DEF Bind
  <2>2. ~(clicks <= 1 /\ edits = 0)
    <3> SUFFICES ASSUME clicks <= 1, edits = 0 PROVE FALSE
        OBVIOUS
    <3>1. PICK s \in Threads : entry[t] \in {fresh[s], kept[s]}
          BY <1>3 DEF Listening
    <3>2. entry[t] = entry[s]
          BY <1>1, <3>1 DEF UInv, OwnPort
    <3>3. s = t
          BY <3>2, PortsAssumption DEF UInv, OwnPort
    <3> QED BY <1>1, <3>1, <3>3 DEF Bind, UInv, OneLaunch
  <2> QED BY <1>1, <2>1, <2>2 DEF Bind, UInv, TypeOK, RunCounted, FreshWhileAccepting,
                                  OwnPort, OneLaunch
<1> QED BY <1>2, <1>3

(* accept: the fresh socket becomes the one that is kept. *)
LEMMA AcceptUInv ==
    ASSUME UInv, NEW t \in Threads, Accept(t)
    PROVE  UInv'
<1>1. /\ pc[t] = "accept" /\ fresh[t] \in Ports /\ fresh[t] # 0
      /\ backlog[fresh[t]] \in Seq(1..MaxRuns) /\ backlog[fresh[t]] # <<>>
      BY PortsAssumption DEF Accept, UInv, TypeOK, FreshWhileAccepting
<1>2. /\ kept' = [kept EXCEPT ![t] = fresh[t]] /\ fresh' = [fresh EXCEPT ![t] = 0]
      /\ pc' = [pc EXCEPT ![t] = "serve"]
      /\ conn' = [conn EXCEPT ![t] = Head(backlog[fresh[t]])]
      /\ UNCHANGED <<event, entry, clicks, edits, run, qemu, qport, early, listened>>
      BY DEF Accept
<1>3. Head(backlog[fresh[t]]) \in 0..MaxRuns /\ Tail(backlog[fresh[t]]) \in Seq(1..MaxRuns)
  <2> DEFINE S == 1..MaxRuns
  <2>1. \A s \in Seq(S) : s # <<>> => Head(s) \in S /\ Tail(s) \in Seq(S)
    <3> HIDE DEF S
    <3> QED OBVIOUS
  <2>2. Head(backlog[fresh[t]]) \in S /\ Tail(backlog[fresh[t]]) \in Seq(S)
        BY <1>1, <2>1, Zenon
  <2> QED BY <2>2, BoundsAssumption
<1>4. backlog' \in [Ports -> Seq(1..MaxRuns)]
  <2>1. ASSUME NEW p \in Ports
        PROVE  (IF p = fresh[t] THEN Tail(backlog[p])
                ELSE IF p = kept[t] THEN <<>> ELSE backlog[p]) \in Seq(1..MaxRuns)
    <3>1. backlog[p] \in Seq(1..MaxRuns)
          BY DEF UInv, TypeOK
    <3>2. CASE p = fresh[t]
          BY <1>3, <3>2
    <3>3. CASE p # fresh[t] /\ p = kept[t]
          BY <3>3
    <3>4. CASE p # fresh[t] /\ p # kept[t]
          BY <3>1, <3>4
    <3> QED BY <3>2, <3>3, <3>4
  <2> QED BY <2>1 DEF Accept
<1>5. TypeOK'
      BY <1>1, <1>2, <1>3, <1>4 DEF UInv, TypeOK
<1>6. RunCounted' /\ FreshWhileAccepting'
      BY <1>1, <1>2 DEF UInv, TypeOK, RunCounted, FreshWhileAccepting
<1>7. OwnPort'
      BY <1>1, <1>2 DEF UInv, TypeOK, FreshWhileAccepting, OwnPort
<1>8. OneLaunch'
      BY <1>1, <1>2 DEF UInv, TypeOK, FreshWhileAccepting, OneLaunch
<1> QED BY <1>5, <1>6, <1>7, <1>8, Zenon DEF UInv

(* The other steps of a server thread. *)
LEMMA ServerUInv ==
    ASSUME UInv, NEW t \in Threads, Wait(t) \/ EndOfSession(t) \/ Clear(t)
    PROVE  UInv'
<1>1. CASE Wait(t)
      BY <1>1 DEF Wait, UInv, TypeOK, RunCounted, FreshWhileAccepting, OwnPort, OneLaunch
<1>2. CASE EndOfSession(t)
      BY <1>2 DEF EndOfSession, UInv, TypeOK, RunCounted, FreshWhileAccepting, OwnPort,
                  OneLaunch
<1>3. CASE Clear(t)
      BY <1>3 DEF Clear, UInv, TypeOK, RunCounted, FreshWhileAccepting, OwnPort, OneLaunch
<1> QED BY <1>1, <1>2, <1>3

(* The invariant is inductive. *)
LEMMA NextUInv == UInv /\ [Next]_vars => UInv'
<1> SUFFICES ASSUME UInv, [Next]_vars PROVE UInv'
    OBVIOUS
<1>1. CASE UNCHANGED vars
      BY <1>1 DEF vars, ui, UInv, TypeOK, RunCounted, FreshWhileAccepting, OwnPort, OneLaunch
<1>2. CASE Next
      BY <1>2, OutsideUInv, EditUInv, BindUInv, AcceptUInv, ServerUInv DEF Next, Server
<1> QED BY <1>1, <1>2

(* The sockets, backlogs and ports of the three servers keep their types.  *)
THEOREM TypeCorrect == Spec => []TypeOK
<1>1. UInv => TypeOK
      BY DEF UInv
<1> QED BY <1>1, InitUInv, NextUInv, PTL DEF Spec

(* The first click on "Lancer" makes no thread die, whatever the order in  *)
(* which sessions end and clear the shared event.                          *)
THEOREM FirstLaunchIsSafe == Spec => []FirstLaunchKillsNone
<1>1. UInv => FirstLaunchKillsNone
      BY DEF UInv, OneLaunch, FirstLaunchKillsNone
<1> QED BY <1>1, InitUInv, NextUInv, PTL DEF Spec

(* A thread serves one connection on a port: the socket it keeps makes     *)
(* every later bind of that port fail.                                     *)
THEOREM OneSession == Spec => []OneSessionPerPort
<1>1. UInv => OneSessionPerPort
      BY DEF UInv, OwnPort, OneSessionPerPort
<1> QED BY <1>1, InitUInv, NextUInv, PTL DEF Spec
=============================================================================
