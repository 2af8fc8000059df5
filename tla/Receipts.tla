------------------------------ MODULE Receipts ------------------------------
(***************************************************************************)
(* The commands by which the admin front end signs operators in            *)
(* (kokoro-platform-admin/src/admin-auth-service.ts, admin-auth-receipt.ts *)
(* and admin-auth-store.ts): each has an id and an idempotency key, and a  *)
(* receipt that is written with its effect in one transaction.             *)
(*                                                                         *)
(* A transaction looks for receipts in its snapshot and then inserts: the  *)
(* insert waits for the transactions that hold the same keys, so that what *)
(* follows the look is one step, on the rows as they are by then.  Nothing *)
(* bounds how often or how late a command is delivered.                    *)
(***************************************************************************)
EXTENDS Integers, FiniteSets

CONSTANTS
  Commands,   \* commands as clients send them: identities are meant to be unique
  Id, Key,    \* of each command: its commandId and its idempotencyKey
  Operation,  \* what it does ("create", "consume" or "event"), to
  Target,     \* which verification token
  Tokens,     \* (identifier, token) pairs
  Deliveries, \* deliveries that may be served at once
  NoCommand   \* of a delivery that is over

ASSUME ReceiptsAssumption ==
  /\ NoCommand \notin Commands
  /\ Target \in [Commands -> Tokens]
  /\ Operation \in [Commands -> {"create", "consume", "event"}]

VARIABLES
  receipt,   \* admin_auth_command_receipts: the commands that have one
  token,     \* verification_tokens: those that can be consumed
  done,      \* history: how often the effect of each command was committed
  answered,  \* history: the commands a client was told are done
  rpc        \* where each delivery is

receiptVars == <<receipt, token, done, answered, rpc>>

-----------------------------------------------------------------------------
Rpc == [at : {"idle", "look", "execute"}, command : Commands \cup {NoCommand}, again : BOOLEAN]
NoRpc == [at |-> "idle", command |-> NoCommand, again |-> FALSE]

RpcAt(p, step) == rpc[p].at = step
EndRpc(p) == rpc' = [rpc EXCEPT ![p] = NoRpc]

(* Receipts with the id or the key of c.                                   *)
SameIdentity(c, d) == Id[c] = Id[d] \/ Key[c] = Key[d]
Found(c) == {d \in receipt : SameIdentity(c, d)}

(* requestDigest: of the effect, a message of each operation's own.        *)
SameDigest(c, d) == Operation[c] = Operation[d] /\ Target[c] = Target[d]

(* replayOrConflict: a receipt answers the command it was written for.     *)
Replays(c, d) == Id[c] = Id[d] /\ Key[c] = Key[d] /\ SameDigest(c, d)

-----------------------------------------------------------------------------
Deliver(p) ==
  \E c \in Commands :
    /\ rpc[p] = NoRpc
    /\ rpc' = [rpc EXCEPT ![p] = [at |-> "look", command |-> c, again |-> FALSE]]
    /\ UNCHANGED <<receipt, token, done, answered>>

(* executeOnce: the receipt that is found by id, or else by key, decides.  *)
Deciding(c) ==
  IF \E d \in receipt : Id[c] = Id[d] THEN {d \in receipt : Id[c] = Id[d]} ELSE Found(c)

Look(p) ==
  LET c == rpc[p].command
  IN  /\ RpcAt(p, "look")
      /\ \/ /\ Found(c) = {}
            /\ rpc' = [rpc EXCEPT ![p].at = "execute"]
            /\ UNCHANGED answered
         \/ /\ \E d \in Deciding(c) : Replays(c, d)
            /\ answered' = answered \cup {c}
            /\ EndRpc(p)
         \/ /\ \E d \in Deciding(c) : ~Replays(c, d)
            /\ EndRpc(p)
            /\ UNCHANGED answered
      /\ UNCHANGED <<receipt, token, done>>

(* A receipt with the id or the key of c written since is a conflict of unique keys:
   the transaction is undone and tried again, once.                        *)
Taken_IdOnly(c) == \E d \in receipt : Id[d] = Id[c]
Taken(c) == Found(c) # {}

Conflict(p) ==
  /\ RpcAt(p, "execute")
  /\ Taken(rpc[p].command)
  /\ rpc' = [rpc EXCEPT ![p] = IF @.again THEN NoRpc ELSE [@ EXCEPT !.at = "look", !.again = TRUE]]
  /\ UNCHANGED <<receipt, token, done, answered>>

(* The effect: a token that exists is not created, one that does not is not consumed;
   the transaction is undone then, its receipt with it.                    *)
Applies(c) ==
  CASE Operation[c] = "create"  -> Target[c] \notin token
    [] Operation[c] = "consume" -> Target[c] \in token
    [] Operation[c] = "event"   -> TRUE
Applied(c) ==
  CASE Operation[c] = "create"  -> token \cup {Target[c]}
    [] Operation[c] = "consume" -> token \ {Target[c]}
    [] Operation[c] = "event"   -> token

Execute(p) ==
  LET c == rpc[p].command
  IN  /\ RpcAt(p, "execute")
      /\ ~Taken(c) /\ Applies(c)
      /\ receipt' = receipt \cup {c}
      /\ token' = Applied(c)
      /\ done' = [done EXCEPT ![c] = @ + 1]
      /\ \/ answered' = answered \cup {c}
         \/ UNCHANGED answered
      /\ EndRpc(p)

Refuse(p) ==
  /\ RpcAt(p, "execute")
  /\ ~Taken(rpc[p].command) /\ ~Applies(rpc[p].command)
  /\ EndRpc(p)
  /\ UNCHANGED <<receipt, token, done, answered>>

(* The database fails or the process dies before the transaction commits.  *)
RpcFails(p) ==
  /\ rpc[p] # NoRpc
  /\ EndRpc(p)
  /\ UNCHANGED <<receipt, token, done, answered>>

(* getCommandReceipt: a client that had no answer asks for the receipt of its
   command's id; one of another digest is a conflict.                      *)
Reconcile(c) ==
  /\ \E d \in receipt : Id[c] = Id[d] /\ SameDigest(c, d)
  /\ answered' = answered \cup {c}
  /\ UNCHANGED <<receipt, token, done, rpc>>

-----------------------------------------------------------------------------
InitReceipts ==
  /\ receipt = {} /\ token = {} /\ answered = {}
  /\ done = [c \in Commands |-> 0]
  /\ rpc = [p \in Deliveries |-> NoRpc]

NextReceipts ==
  \/ \E p \in Deliveries :
       Deliver(p) \/ Look(p) \/ Conflict(p) \/ Execute(p) \/ Refuse(p) \/ RpcFails(p)
  \/ \E c \in Commands : Reconcile(c)

ReceiptsSpec == InitReceipts /\ [][NextReceipts]_receiptVars

-----------------------------------------------------------------------------
(* Type correctness.                                                       *)
ReceiptsTypeOK ==
  /\ receipt \in SUBSET Commands /\ answered \in SUBSET Commands
  /\ token \in SUBSET Tokens
  /\ done \in [Commands -> Nat]
  /\ rpc \in [Deliveries -> Rpc]

(* However often and in whatever order commands are delivered, and though clients
   reuse ids and keys, a command takes effect once at most, no two that share an
   id or a key both do, and a client who is told that its command is done may
   rely on it (executeOnce, getCommandReceipt).                            *)
DoneOnce ==
  /\ \A c \in Commands : done[c] <= 1
  /\ \A c, d \in Commands : SameIdentity(c, d) /\ done[c] > 0 /\ done[d] > 0 => c = d
  /\ \A c \in answered : \E d \in Commands : Id[c] = Id[d] /\ SameDigest(c, d) /\ done[d] = 1
=============================================================================
