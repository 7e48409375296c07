----------------------------- MODULE SocketIComm -----------------------------
(***************************************************************************)
(* SocketIComm.c: the socket on which GDBs connect, one after the other,   *)
(* and the connection to the one that was accepted last.  A GDB that hangs *)
(* up is noticed when its characters have been read; the next call that    *)
(* needs a connection waits for the next GDB.  The GDBs and the host's     *)
(* sockets are external; the host's calls may fail, a bounded number of    *)
(* times.                                                                  *)
(***************************************************************************)
EXTENDS HostCalls, FiniteSets, FiniteSetsExt, SequencesExt

VARIABLES
    gdbs,               \* the GDBs in the order they connect in
    listenSocket,       \* whether g_comm has a listening socket
    gdbSocket,          \* the GDB g_comm has a socket to, or 0
    descriptors,        \* the sockets that are open in the host: GDBs, and 0 to listen
    received            \* history: what receiveChar returned

comm  == <<listenSocket, gdbSocket, descriptors>>
socket == <<gdbs, comm, received>>

\* What receiveChar returns when GDB has hung up.
Nul == "nul"

\* A GDB: what it will send, what it has, how much of that was read, how far it
\* got, whether it hung up, and the transmissions its characters are from.
Gdb(script) ==
    [script |-> script, sent |-> 0, read |-> 0, stage |-> "away", hungUp |-> FALSE, got |-> << >>]

\* The GDBs that have connected and wait to be accepted.
Queued == {i \in DOMAIN gdbs : gdbs[i].stage = "queued"}

CanTalk == gdbSocket # 0 \/ Queued # {}
Talking == IF gdbSocket # 0 THEN gdbSocket ELSE Min(Queued)

Readable(i) == gdbs[i].read < gdbs[i].sent \/ gdbs[i].hungUp

Accepted(i) == [gdbs EXCEPT ![i].stage = "accepted"]

\* waitForGdbConnectIfNecessary: the connection there is, or the next one.
WaitForGdbConnect ==
    /\ CanTalk /\ gdbSocket' = Talking /\ listenSocket' = listenSocket
    /\ descriptors' = descriptors \cup {Talking}

\* accept fails: there is no connection still.
AcceptFails == gdbSocket = 0 /\ Fails

\* Mutated form of ReceiveChar: the connection is closed as soon as GDB is gone.
ReceiveChar_UnreadLost(char) ==
    /\ CanTalk /\ Works /\ received' = Append(received, char)
    /\ LET i == Talking
       IN  \/ /\ ~gdbs[i].hungUp /\ gdbs[i].read < gdbs[i].sent /\ char = gdbs[i].script[gdbs[i].read + 1]
              /\ gdbs' = [Accepted(i) EXCEPT ![i].read = @ + 1]
              /\ WaitForGdbConnect
           \/ /\ gdbs[i].hungUp /\ char = Nul
              /\ gdbs' = [Accepted(i) EXCEPT ![i].stage = "closed"]
              /\ gdbSocket' = 0 /\ descriptors' = descriptors \ {i}
              /\ UNCHANGED listenSocket

\* receiveChar: the next character, or 0 and a closed connection.
ReceiveChar(char) ==
    /\ CanTalk /\ Works /\ received' = Append(received, char)
    /\ LET i == Talking
       IN  \/ /\ gdbs[i].read < gdbs[i].sent /\ char = gdbs[i].script[gdbs[i].read + 1]
              /\ gdbs' = [Accepted(i) EXCEPT ![i].read = @ + 1]
              /\ WaitForGdbConnect
           \/ /\ gdbs[i].read = gdbs[i].sent /\ gdbs[i].hungUp /\ char = Nul
              /\ gdbs' = [Accepted(i) EXCEPT ![i].stage = "closed"]
              /\ gdbSocket' = 0 /\ descriptors' = descriptors \ {i}
              /\ UNCHANGED listenSocket

\* Mutated form of SendChar: a connection whose GDB is gone is closed at once.
SendChar_CloseUnread(transmission) ==
    /\ CanTalk /\ Works /\ UNCHANGED received
    /\ LET i == Talking
       IN  IF gdbs[i].hungUp
           THEN /\ gdbs' = [Accepted(i) EXCEPT ![i].stage = "closed"]
                /\ gdbSocket' = 0 /\ descriptors' = descriptors \ {i} /\ UNCHANGED listenSocket
           ELSE /\ gdbs' = [Accepted(i) EXCEPT ![i].got = Append(@, transmission)]
                /\ WaitForGdbConnect

\* sendChar: a character for a GDB that is gone is lost.
SendChar(transmission) ==
    /\ CanTalk /\ Works /\ UNCHANGED received
    /\ WaitForGdbConnect
    /\ gdbs' = [Accepted(Talking) EXCEPT
                    ![Talking].got = IF gdbs[Talking].hungUp THEN @ ELSE Append(@, transmission)]

\* recv or send fails, as either may without a fault of the host when GDB is
\* gone and has reset the connection.  The connection stays open.
TalkFails ==
    /\ CanTalk /\ WaitForGdbConnect
    /\ Fails \/ (Works /\ gdbs[Talking].hungUp)
    /\ gdbs' = Accepted(Talking) /\ UNCHANGED received

\* Nothing reads the signal of a connection that is broken: the process ends.
BrokenPipe == gdbSocket # 0 /\ gdbs[gdbSocket].hungUp /\ UNCHANGED <<socket, failures>>

\* isGdbConnected: a GDB that waits to be accepted counts.  Asking the listening
\* socket may fail.
IsGdbConnected == CanTalk
IsGdbConnectedFails == gdbSocket = 0 /\ Fails

\* hasReceiveData, of a GDB that is connected or waits.
HasReceiveData == Readable(Talking)
Polls == WaitForGdbConnect /\ gdbs' = Accepted(Talking) /\ UNCHANGED received

-----------------------------------------------------------------------------
\* SocketIComm_Init: a socket, its port, and the GDBs' way to it.
CreateListenSocket ==
    /\ listenSocket' = TRUE /\ descriptors' = descriptors \cup {0}
    /\ UNCHANGED <<gdbs, gdbSocket, received>>

\* SocketIComm_Uninit
CloseSockets ==
    /\ listenSocket' = FALSE /\ gdbSocket' = 0
    /\ descriptors' = descriptors \ ((IF listenSocket THEN {0} ELSE {})
                                      \cup (IF gdbSocket # 0 THEN {gdbSocket} ELSE {}))
    /\ UNCHANGED <<gdbs, received>>

\* The GDBs connect in their order, send, and may hang up once they are done.
Connect(i) ==
    /\ 0 \in descriptors /\ gdbs[i].stage = "away"
    /\ \A k \in 1 .. i - 1 : gdbs[k].stage # "away"
    /\ gdbs' = [gdbs EXCEPT ![i].stage = "queued"]

Send(i) ==
    /\ gdbs[i].stage \in {"queued", "accepted"} /\ ~gdbs[i].hungUp
    /\ gdbs[i].sent < Len(gdbs[i].script)
    /\ gdbs' = [gdbs EXCEPT ![i].sent = @ + 1]

HangUp(i) ==
    /\ gdbs[i].stage \in {"queued", "accepted"} /\ ~gdbs[i].hungUp
    /\ gdbs' = [gdbs EXCEPT ![i].hungUp = TRUE]

GdbActs == \E i \in DOMAIN gdbs : Connect(i) \/ Send(i) \/ HangUp(i)

SocketInit ==
    /\ listenSocket = FALSE /\ gdbSocket = 0 /\ descriptors = {}
    /\ received = << >>

-----------------------------------------------------------------------------
\* What was read of a GDB, with the 0 that tells that it hung up.
ReadFrom(i) ==
    SubSeq(gdbs[i].script, 1, gdbs[i].read) \o (IF gdbs[i].stage = "closed" THEN <<Nul>> ELSE << >>)

ReadInOrder == FlattenSeq([i \in DOMAIN gdbs |-> ReadFrom(i)])
=============================================================================
