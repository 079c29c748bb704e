----------------------------- MODULE MediaSftp -----------------------------
(***************************************************************************)
(* MediaSftpService: file operations on a remote server over one shared    *)
(* connection, which the first of them opens, others join while it is      *)
(* being opened, and any of them ends and forgets when it fails, before it *)
(* tries a second time.  JavaScript runs one callback at a time: a step is *)
(* what happens between two awaits.                                        *)
(*                                                                         *)
(* The message of a failed connect begins "All SFTP auth attempts failed", *)
(* which isAuthError takes for a refused login: no connect is tried twice. *)
(***************************************************************************)
EXTENDS Integers, FiniteSets

CONSTANTS
  Operations,  \* operations of a behaviour
  NoClient,    \* the null of this.client
  NoOne,       \* the null of this.connecting
  MaxFaults,   \* bound: faults of the network and the server
  MaxClients   \* bound: connections opened; no behaviour reaches it

Clients == 1..MaxClients

ASSUME SftpAssumption ==
  /\ MaxFaults \in Nat
  /\ MaxClients \in Nat
  /\ NoClient \notin Clients
  /\ NoOne \notin Operations

VARIABLES
  client,      \* this.client
  connecting,  \* this.connecting: the operation that opens the connection
  sessions,    \* sessions[c]: "new", "open", "dropped" by the network, "ended" by us
  operations,  \* what each operation does
  alone,       \* alone[o]: no other operation has run since o started
  faults       \* faults so far

sftpVars == <<client, connecting, sessions, operations, alone, faults>>

(* put and rename ensure the directory first, by an operation of its own.  *)
(* rename is one call of fn: rename, or else copy and delete.              *)
Kinds == {"put", "rename", "delete"}
Calls(kind) == IF kind = "delete" THEN 1 ELSE 2

(* try is 1 or 2; using, the connection fn works with; moved, that the     *)
(* server renamed the file and the answer got lost; hits, the faults met,  *)
(* a dead connection found at the start included; cause, why it failed.    *)
NewOperation(kind) ==
  [kind |-> kind, stage |-> "idle", left |-> Calls(kind), try |-> 1,
   using |-> NoClient, moved |-> FALSE, hits |-> 0, cause |-> "none"]

Running(o) == operations[o].stage \in {"using", "connecting", "ending"}
Dead(c) == c # NoClient /\ sessions[c] # "open"
NextClient == CHOOSE c \in Clients : sessions[c] = "new"

Failed(op, cause) == [op EXCEPT !.stage = "failed", !.cause = cause, !.using = NoClient]
Hit(op) == [op EXCEPT !.hits = @ + 1]

(* getClient, called by operation o in state op while this.client is c: a  *)
(* connection, or a place among those that wait for one.                   *)
GetClient(o, op, c) ==
  IF c # NoClient
  THEN /\ operations' = [operations EXCEPT ![o] = [op EXCEPT !.stage = "using", !.using = c]]
       /\ UNCHANGED connecting
  ELSE /\ operations' = [operations EXCEPT
            ![o] = [op EXCEPT !.stage = "connecting", !.using = NoClient]]
       /\ connecting' = IF connecting = NoOne THEN o ELSE connecting

Start(o) ==
  /\ operations[o].stage = "idle"
  /\ GetClient(o, [operations[o] EXCEPT !.hits = IF Dead(client) THEN 1 ELSE 0], client)
  /\ alone' = [p \in Operations |->
                 IF p = o THEN \A q \in Operations : ~ Running(q)
                 ELSE alone[p] /\ ~ Running(p)]
  /\ UNCHANGED <<client, sessions, faults>>

(* The connection is there: this.client is set, and then everyone who      *)
(* waited goes on with it.                                                 *)
Connected(o) ==
  /\ connecting = o
  /\ \E c \in Clients : sessions[c] = "new"    \* bound
  /\ client' = NextClient
  /\ sessions' = [sessions EXCEPT ![NextClient] = "open"]
  /\ connecting' = NoOne
  /\ operations' = [p \in Operations |->
       IF operations[p].stage = "connecting"
       THEN [operations[p] EXCEPT !.stage = "using", !.using = NextClient]
       ELSE operations[p]]
  /\ UNCHANGED <<alone, faults>>

(* Mutant: only the operation that opens the connection hears of it.       *)
HearOneFailure(o) ==
  [operations EXCEPT ![o] = Failed(Hit(@), "noConnection")]
HearFailure(o) ==
  [p \in Operations |->
     IF operations[p].stage = "connecting"
     THEN Failed(Hit(operations[p]), "noConnection") ELSE operations[p]]

(* No attempt of buildAttempts gets through.                               *)
ConnectFails(o) ==
  /\ connecting = o
  /\ faults < MaxFaults
  /\ faults' = faults + 1
  /\ connecting' = NoOne
  /\ client' = NoClient
  /\ operations' = HearFailure(o)
  /\ UNCHANGED <<sessions, alone>>

-----------------------------------------------------------------------------
(* The server does not find the file a second rename is about.             *)
SourceGone(o) ==
  operations[o].kind = "rename" /\ operations[o].left = 1 /\ operations[o].moved

Answered(o) ==
  /\ operations[o].stage = "using"
  /\ ~ Dead(operations[o].using)
  /\ ~ SourceGone(o)
  /\ IF operations[o].left = 1
     THEN /\ operations' = [operations EXCEPT ![o].stage = "done", ![o].using = NoClient]
          /\ UNCHANGED connecting
     ELSE GetClient(o, [operations[o] EXCEPT !.left = @ - 1, !.try = 1], client)
  /\ UNCHANGED <<client, sessions, alone, faults>>

(* fn rejects.  The first time, the connection that is current by now is   *)
(* ended, whoever uses it; then, or at once when there is none, the        *)
(* operation asks for a client again.                                      *)
Rejected(o, op, cause) ==
  IF op.try = 2
  THEN /\ operations' = [operations EXCEPT ![o] = Failed(op, cause)]
       /\ UNCHANGED <<connecting, sessions>>
  ELSE IF client = NoClient
  THEN /\ GetClient(o, [op EXCEPT !.try = 2], NoClient)
       /\ UNCHANGED sessions
  ELSE /\ operations' = [operations EXCEPT ![o] =
            [op EXCEPT !.stage = "ending", !.using = NoClient, !.try = 2]]
       /\ sessions' = [sessions EXCEPT ![client] = "ended"]
       /\ UNCHANGED connecting

(* The connection is gone, or the file is: no new fault.                   *)
Rejects(o) ==
  /\ operations[o].stage = "using"
  /\ \/ /\ Dead(operations[o].using)
        /\ Rejected(o, operations[o], "lost")
     \/ /\ ~ Dead(operations[o].using)
        /\ SourceGone(o)
        /\ Rejected(o, operations[o], "sourceGone")
  /\ UNCHANGED <<client, alone, faults>>

(* The server refuses; a refusal isAuthError recognizes is not retried.    *)
Refuses(o) ==
  /\ operations[o].stage = "using"
  /\ ~ Dead(operations[o].using)
  /\ faults < MaxFaults
  /\ faults' = faults + 1
  /\ \/ Rejected(o, Hit(operations[o]), "refused")
     \/ /\ operations' = [operations EXCEPT ![o] = Failed(Hit(@), "denied")]
        /\ UNCHANGED <<connecting, sessions>>
  /\ UNCHANGED <<client, alone>>

(* The network drops connection c.  Of the renames sent over it, the       *)
(* server has carried out those in S.                                      *)
Drop(c) ==
  /\ sessions[c] = "open"
  /\ faults < MaxFaults
  /\ faults' = faults + 1
  /\ sessions' = [sessions EXCEPT ![c] = "dropped"]
  /\ \E S \in SUBSET {o \in Operations : /\ operations[o].using = c
                                         /\ operations[o].kind = "rename"
                                         /\ operations[o].left = 1} :
       operations' = [o \in Operations |->
         IF operations[o].using = c
         THEN [Hit(operations[o]) EXCEPT !.moved = @ \/ o \in S]
         ELSE operations[o]]
  /\ UNCHANGED <<client, connecting, alone>>

(* Mutant: the ended connection is not forgotten.                          *)
EndedKept(o) ==
  /\ operations[o].stage = "ending"
  /\ GetClient(o, operations[o], client)
  /\ UNCHANGED <<client, sessions, alone, faults>>
(* end() has settled: what is current now is forgotten.                    *)
Ended(o) ==
  /\ operations[o].stage = "ending"
  /\ client' = NoClient
  /\ GetClient(o, operations[o], NoClient)
  /\ UNCHANGED <<sessions, alone, faults>>

-----------------------------------------------------------------------------
Disconnected ==
  /\ client = NoClient
  /\ connecting = NoOne
  /\ sessions = [c \in Clients |-> "new"]
  /\ alone = [o \in Operations |-> TRUE]
  /\ faults = 0

SftpInit ==
  /\ Disconnected
  /\ operations \in {[o \in Operations |-> NewOperation(mix[o])] : mix \in [Operations -> Kinds]}

(* No operation on a file comes.                                           *)
NoFilesInit ==
  /\ Disconnected
  /\ operations = [o \in Operations |-> [NewOperation("delete") EXCEPT !.stage = "absent"]]

Proceed(o) ==
  Connected(o) \/ Answered(o) \/ Rejects(o) \/ Ended(o)

SftpNext ==
  \/ \E o \in Operations : Start(o) \/ Proceed(o) \/ ConnectFails(o) \/ Refuses(o)
  \/ \E c \in Clients : Drop(c)

(* The server answers, or the library reports that the connection is gone. *)
SftpFairness == WF_sftpVars(\E o \in Operations : Proceed(o))

-----------------------------------------------------------------------------
Operation ==
  [kind : Kinds, left : 1..2, try : 1..2, using : Clients \cup {NoClient}, moved : BOOLEAN,
   stage : {"absent", "idle", "connecting", "using", "ending", "done", "failed"},
   hits : Nat, cause : {"none", "noConnection", "denied", "lost", "refused", "sourceGone"}]

(* The fields have the values TypeScript gives them.                       *)
SftpTypeOK ==
  /\ client \in Clients \cup {NoClient}
  /\ connecting \in Operations \cup {NoOne}
  /\ sessions \in [Clients -> {"new", "open", "dropped", "ended"}]
  /\ operations \in [Operations -> Operation]
  /\ alone \in [Operations -> BOOLEAN]

(* The second try heals: an operation that runs by itself and meets one    *)
(* fault, or finds a dead connection, succeeds.  The exceptions are the    *)
(* code's: failed logins, which every failed connect is taken for, are not *)
(* retried, and a rename that the server carried out cannot be repeated.   *)
HealsAlone ==
  \A o \in Operations :
    operations[o].stage = "failed" /\ alone[o] /\ operations[o].hits <= 1 =>
      \/ operations[o].cause \in {"noConnection", "denied"}
      \/ operations[o].kind = "rename" /\ operations[o].moved

(* Every operation comes to an end: none waits for a connection nobody is  *)
(* opening, and none retries forever.                                      *)
OperationsEnd ==
  \A o \in Operations : Running(o) ~> operations[o].stage \in {"done", "failed"}
=============================================================================
