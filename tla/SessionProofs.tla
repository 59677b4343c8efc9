--------------------------- MODULE SessionProofs ---------------------------
(***************************************************************************)
(* A session answers every request once and calls the methods of the       *)
(* filesystem between init and destroy, panics included, for any number of *)
(* requests, any operations, users and mounts; and what a filesystem's     *)
(* init makes of the kernel's offer suits both sides.                      *)
(***************************************************************************)
EXTENDS Session, KernelConfig, TLAPS

TypeOK ==
  /\ \E m \in Mounts : options = m.options /\ owner = m.owner
  /\ initialized \in BOOLEAN /\ destroyed \in BOOLEAN
  /\ se \in {"new", "running", "returned", "unwinding", "dropped"}
  /\ current \in Received \cup {NoRequest}
  /\ replies \subseteq Uniques
  /\ filesystem \in [init : BOOLEAN, destroy : Nat, unwound : Nat]
  /\ conn \in {"up", "destroying", "down"}
  /\ pending \in [Uniques -> Requests \cup {NoRequest}]
  /\ sent \subseteq Uniques
  /\ stray \subseteq AllOperations \cup {"Deferred"}

(* The loop holds a request only while it runs, and not one whose Reply is *)
(* on another thread: also a FORGET, whose unique the kernel may use again *)
(* while the loop still has it.                                            *)
LoopInv ==
  current # NoRequest => se = "running" /\ current.unique \notin replies

(* DESTROY comes once.  The kernel sends it when the connection is over,   *)
(* and once it is dispatched, none waits to be read.  dispatch_req does    *)
(* not look at `destroyed' before it calls destroy, so this is why it is   *)
(* called once.                                                            *)
IsDestroy(u) == pending[u] # NoRequest /\ pending[u].op = "Destroy"
DestroyInv ==
  /\ conn = "up" =>
       /\ \A u \in Uniques : ~IsDestroy(u)
       /\ current # NoRequest => current.op # "Destroy"
       /\ se # "dropped" => ~destroyed
  /\ \A u, v \in Uniques : IsDestroy(u) /\ IsDestroy(v) => u = v
  /\ current # NoRequest /\ current.op = "Destroy" =>
       /\ ~destroyed
       /\ \A u \in Uniques : IsDestroy(u) => u \in sent
  /\ destroyed /\ se # "dropped" =>
       \A u \in Uniques : IsDestroy(u) => u \in sent

(* The flags of the Session say what the filesystem has been told.         *)
FlagsInv ==
  /\ initialized = filesystem.init
  /\ filesystem.destroy = IF destroyed THEN 1 ELSE 0
  /\ filesystem.unwound > 0 =>
       /\ se \in {"unwinding", "dropped"}
       /\ se = "unwinding" => initialized /\ ~destroyed /\ filesystem.unwound = 1
  /\ se = "dropped" => destroyed \/ filesystem.unwound > 0

(* What has been read and waits for an answer is what the kernel asked.    *)
SentInv ==
  /\ \A u \in sent : pending[u] # NoRequest
  /\ current # NoRequest /\ current.op \notin NoReply =>
       current.unique \in sent /\ pending[current.unique].op = current.op

(* The kernel asks for INIT alone until it has succeeded.                  *)
ServedInv ==
  /\ kinit = "done" => initialized
  /\ \A u \in Uniques :
       pending[u] # NoRequest /\ pending[u].op \notin Inits => initialized
  /\ current # NoRequest /\ current.op \notin Inits => initialized

(* The inductive invariant.                                                *)
IInv ==
  /\ TypeOK /\ LoopInv /\ DestroyInv /\ FlagsInv /\ SentInv /\ ServedInv
  /\ RepliesMatch

-----------------------------------------------------------------------------
(* Operations of requests.                                                 *)
LEMMA OperationKinds ==
  /\ "Destroy" \notin Operations /\ "Destroy" \notin Inits
  /\ "Destroy" \notin NoReply /\ "Deferred" \notin NoReply
  /\ Inits \cap NoReply = {}
  /\ \A op \in AllOperations, user \in Users : Request(op, user) \in Requests
  /\ \A op \in AllOperations, user \in Users : Request(op, user) # NoRequest
  /\ root \in Users
  BY OperationsAssumption, NoRequestAssumption, SessionAssumption
  DEF Inits, NoReply, Methods, Unknown, Unsupported, InodeOperations,
      FileOperations, DirectoryOperations, OtherOperations, LaterOperations,
      AllOperations, Request, Requests

(* An answer ends the request it is for, if the kernel still waits for it. *)
LEMMA SendFacts ==
  ASSUME TypeOK, NEW u \in Uniques, NEW op, Send(u, op)
  PROVE  /\ sent' \subseteq sent /\ sent \ {u} \subseteq sent'
         /\ pending' \in [Uniques -> Requests \cup {NoRequest}]
         /\ \A v \in Uniques :
              IsDestroy(v)' => IsDestroy(v) /\ (v \in sent => v \in sent')
         /\ stray' \subseteq stray \cup {op}
         /\ Connected /\ u \in sent => sent' = sent \ {u} /\ stray' = stray
         /\ Connected /\ u \notin sent => sent' = sent
         /\ u \in sent \/ ~Connected => stray' = stray
         /\ \A v \in Uniques : pending'[v] = pending[v] \/ pending'[v] = NoRequest
         /\ \A v \in sent' : pending'[v] = pending[v]
  <1>1. CASE Connected /\ u \in sent
    BY <1>1 DEF Send, TypeOK, IsDestroy
  <1>2. CASE ~(Connected /\ u \in sent)
    BY <1>2 DEF Send, TypeOK, IsDestroy
  <1> QED BY <1>1, <1>2

(* The connection does not come back.                                      *)
LEMMA StaysDown ==
  ASSUME conn' = conn \/ conn # "down",
         se' = se \/ se # "dropped",
         mount' = mount \/ mount # "dropped",
         replies' \subseteq replies \/ se # "dropped"
  PROVE  Connected' => Connected
  BY DEF Connected, DeviceOpen

(* Steps that only read what the invariant is about.                       *)
LEMMA Unchanged ==
  ASSUME IInv,
         UNCHANGED <<options, owner, initialized, destroyed, se, current,
                     replies, filesystem, conn, kinit, pending, sent, stray>>,
         mount' = mount \/ mount # "dropped"
  PROVE  IInv'
  <1>1. Connected' => Connected
    BY StaysDown
  <1>2. TypeOK' /\ LoopInv' /\ DestroyInv' /\ FlagsInv' /\ SentInv' /\ ServedInv'
    BY DEF IInv, TypeOK, LoopInv, DestroyInv, IsDestroy, FlagsInv, SentInv,
           ServedInv
  <1>3. RepliesMatch'
    BY <1>1 DEF IInv, RepliesMatch
  <1> QED BY <1>2, <1>3 DEF IInv

-----------------------------------------------------------------------------
(* The kernel.                                                             *)

LEMMA NewRequestStep ==
  ASSUME IInv, NEW u \in Uniques, NEW op \in Operations, NEW user \in Users,
         NewRequest(u, op, user)
  PROVE  IInv'
  <1>1. /\ UNCHANGED <<session, replies, filesystem, conn, kinit, sent, stray>>
        /\ pending' = [pending EXCEPT ![u] = Request(op, user)]
    BY DEF NewRequest
  <1>2. op \in AllOperations /\ op # "Destroy"
    BY OperationKinds DEF AllOperations
  <1>3. TypeOK'
    BY <1>1, <1>2, OperationKinds DEF IInv, TypeOK, session
  <1>4. \A v \in Uniques : IsDestroy(v)' => IsDestroy(v)
    BY <1>1, <1>2 DEF IInv, TypeOK, IsDestroy, Request
  <1>5. DestroyInv'
    BY <1>1, <1>4 DEF IInv, DestroyInv, session
  <1>6. pending[u] = NoRequest /\ kinit = "done"
    BY DEF NewRequest
  <1>7. u \notin sent /\ \A v \in Uniques : v # u => pending'[v] = pending[v]
    BY <1>1, <1>6 DEF IInv, TypeOK, SentInv
  <1>8. LoopInv' /\ FlagsInv' /\ ServedInv'
    BY <1>1, <1>6 DEF IInv, LoopInv, FlagsInv, ServedInv, session
  <1>9. SentInv'
    BY <1>1, <1>7 DEF IInv, TypeOK, SentInv, session
  <1>10. RepliesMatch'
    BY <1>1, <1>7 DEF IInv, TypeOK, RepliesMatch, Connected, DeviceOpen, session
  <1> QED BY <1>3, <1>5, <1>8, <1>9, <1>10 DEF IInv

(* An unmount, by whomever: a DESTROY is sent only on a connection that is *)
(* up, where none was before.                                              *)
LEMMA UmountStep ==
  ASSUME IInv, Umount,
         UNCHANGED <<options, owner, initialized, destroyed, se, current,
                     replies, filesystem, kinit, sent, stray>>,
         mount' = mount \/ mount # "dropped"
  PROVE  IInv'
  <1>1. conn = "up" /\ conn' # "up" /\ conn' \in {"destroying", "down"}
    BY DEF Umount
  <1>2. Connected' => Connected
    BY <1>1, StaysDown
  <1>3. \/ pending' = pending
        \/ /\ se = "running" /\ kinit = "done"
           /\ \E u \in Uniques :
                /\ pending[u] = NoRequest
                /\ pending' = [pending EXCEPT ![u] = Request("Destroy", root)]
    BY DEF Umount
  <1>4. TypeOK'
    BY <1>1, <1>3, OperationKinds DEF IInv, TypeOK, AllOperations
  <1>5. DestroyInv'
    <2>1. CASE pending' = pending
      BY <2>1, <1>1 DEF IInv, DestroyInv, IsDestroy
    <2>2. CASE pending' # pending
      <3>1. PICK u \in Uniques :
              pending' = [pending EXCEPT ![u] = Request("Destroy", root)]
        BY <2>2, <1>3
      <3>2. \A v \in Uniques : IsDestroy(v)' => v = u
        BY <3>1, <1>1 DEF IInv, TypeOK, DestroyInv, IsDestroy
      <3>3. ~destroyed \/ se = "dropped"
        BY <1>1 DEF IInv, DestroyInv
      <3>4. current # NoRequest => current.op # "Destroy"
        BY <1>1 DEF IInv, DestroyInv
      <3> QED BY <1>1, <3>2, <3>3, <3>4 DEF DestroyInv
    <2> QED BY <2>1, <2>2
  <1>6. /\ \A v \in sent : pending'[v] = pending[v]
        /\ pending' = pending \/ initialized
    BY <1>3 DEF IInv, TypeOK, SentInv, ServedInv
  <1>7. LoopInv' /\ FlagsInv' /\ ServedInv'
    BY <1>6 DEF IInv, LoopInv, FlagsInv, ServedInv
  <1>8. SentInv'
    BY <1>6 DEF IInv, SentInv
  <1>9. RepliesMatch'
    BY <1>2, <1>6 DEF IInv, RepliesMatch
  <1> QED BY <1>4, <1>5, <1>7, <1>8, <1>9 DEF IInv

LEMMA KernelSteps ==
  ASSUME IInv, KernelStep
  PROVE  IInv'
  <1>1. CASE \E u \in Uniques, op \in Operations, user \in Users :
               NewRequest(u, op, user)
    BY <1>1, NewRequestStep
  <1>2. CASE ExternalUmount
    BY <1>2, UmountStep DEF ExternalUmount, session
  <1>3. CASE DestroyAnswered
    <2>1. /\ conn' = "down" /\ conn # "down"
          /\ UNCHANGED <<session, replies, filesystem, kinit, pending, sent, stray>>
      BY <1>3 DEF DestroyAnswered
    <2>2. ~Connected'
      BY <2>1 DEF Connected
    <2>3. TypeOK' /\ LoopInv' /\ DestroyInv' /\ FlagsInv' /\ SentInv' /\ ServedInv'
      BY <2>1 DEF IInv, TypeOK, LoopInv, DestroyInv, IsDestroy, FlagsInv,
                  SentInv, ServedInv, session
    <2>4. RepliesMatch'
      BY <2>1, <2>2 DEF IInv, RepliesMatch, session
    <2> QED BY <2>3, <2>4 DEF IInv
  <1> QED BY <1>1, <1>2, <1>3 DEF KernelStep

-----------------------------------------------------------------------------
(* The loop.                                                               *)

(* A request that the loop takes is one that nobody has: `sent' holds what *)
(* is in a Reply, and the unique is not in it.                             *)
LEMMA ReceiveStep ==
  ASSUME IInv, NEW u \in Uniques, receive(u)
  PROVE  IInv'
  <1> DEFINE r == [unique |-> u, op |-> pending[u].op, user |-> pending[u].user]
  <1>1. /\ se = "running" /\ current = NoRequest /\ Connected
        /\ pending[u] # NoRequest /\ u \notin sent
        /\ current' = r
        /\ UNCHANGED <<options, owner, initialized, destroyed, se, mount,
                       replies, filesystem, conn, kinit, stray>>
        /\ \/ /\ r.op \in NoReply
              /\ pending' = [pending EXCEPT ![u] = NoRequest] /\ sent' = sent
           \/ /\ r.op \notin NoReply
              /\ sent' = sent \cup {u} /\ pending' = pending
    BY DEF receive
  <1>2. pending[u] \in Requests
    BY <1>1 DEF IInv, TypeOK
  <1>3. r \in Received /\ r # NoRequest /\ r.unique = u /\ r.op = pending[u].op
    BY <1>2, NoRequestAssumption DEF Requests, Received
  <1> HIDE DEF r
  <1>4. sent = replies /\ u \notin replies
    BY <1>1 DEF IInv, RepliesMatch
  <1>5. TypeOK'
    BY <1>1, <1>3 DEF IInv, TypeOK
  <1>6. LoopInv' /\ FlagsInv'
    BY <1>1, <1>3, <1>4 DEF IInv, LoopInv, FlagsInv
  <1>9. ServedInv'
    <2>1. r.op \notin Inits => initialized
      BY <1>1, <1>3 DEF IInv, ServedInv
    <2>2. \A v \in Uniques : pending'[v] = pending[v] \/ pending'[v] = NoRequest
      BY <1>1 DEF IInv, TypeOK
    <2> QED BY <1>1, <2>1, <2>2 DEF IInv, ServedInv
  <1>10. SentInv'
    <2>1. \A v \in sent' : pending'[v] = pending[v] /\ pending[v] # NoRequest
      BY <1>1 DEF IInv, TypeOK, SentInv
    <2> QED BY <1>1, <1>3, <2>1 DEF SentInv
  <1>7. DestroyInv'
    <2>1. /\ IsDestroy(u) <=> r.op = "Destroy"
          /\ \A v \in Uniques : IsDestroy(v)' => IsDestroy(v)
      BY <1>1, <1>3 DEF IInv, TypeOK, IsDestroy
    <2>2. CASE r.op = "Destroy"
      <3>1. sent' = sent \cup {u} /\ pending' = pending
        BY <2>2, <1>1, OperationKinds
      <3> QED BY <1>1, <2>1, <2>2, <3>1 DEF IInv, DestroyInv
    <2>3. CASE r.op # "Destroy"
      BY <1>1, <2>1, <2>3 DEF IInv, DestroyInv
    <2> QED BY <2>2, <2>3
  <1>8. RepliesMatch'
    BY <1>1, <1>3, <1>4 DEF IInv, RepliesMatch, Connected, DeviceOpen
  <1> QED BY <1>5, <1>6, <1>7, <1>8, <1>9, <1>10 DEF IInv

(* What every arm of dispatch_req starts from.                             *)
LEMMA DispatchFacts ==
  ASSUME IInv, NEW arm, Dispatch(arm)
  PROVE  /\ se = "running" /\ current # NoRequest /\ current' = NoRequest
         /\ current \in Received /\ current.unique \in Uniques
         /\ current.unique \notin replies
         /\ options' = options /\ owner' = owner
         /\ mount' = mount /\ conn' = conn
         /\ Arm(current) = arm
         /\ Connected' => Connected
  <1>1. /\ se = "running" /\ current # NoRequest /\ current' = NoRequest
        /\ options' = options /\ owner' = owner
        /\ mount' = mount /\ conn' = conn
        /\ Arm(current) = arm
    BY DEF Dispatch
  <1>2. current \in Received
    BY <1>1 DEF IInv, TypeOK
  <1>3. current.unique \in Uniques /\ current.unique \notin replies
    BY <1>1, <1>2 DEF IInv, LoopInv, Received
  <1>4. Connected' => Connected
    BY <1>1 DEF Connected, DeviceOpen
  <1> QED BY <1>1, <1>2, <1>3, <1>4

(* The loop answers the request it has: it was the only one to have it. A  *)
(* FORGET is answered only by the arm for what comes after DESTROY.        *)
LEMMA AnsweredInLoop ==
  ASSUME IInv, NEW arm, Dispatch(arm), replies' = replies,
         Send(current.unique, current.op),
         arm = "method" => current.op \notin NoReply,
         initialized => initialized', destroyed => destroyed',
         kinit' = "done" => initialized'
  PROVE  RepliesMatch' /\ SentInv' /\ ServedInv'
  <1> DEFINE u == current.unique
  <1>1. /\ current # NoRequest /\ current' = NoRequest /\ se = "running"
        /\ u \in Uniques /\ u \notin replies
        /\ Connected' => Connected
        /\ Arm(current) = arm
    BY DispatchFacts
  <1>2. /\ Connected /\ u \in sent => sent' = sent \ {u} /\ stray' = stray
        /\ Connected /\ u \notin sent => sent' = sent
        /\ u \in sent \/ ~Connected => stray' = stray
        /\ stray' \subseteq stray \cup {current.op}
        /\ sent' \subseteq sent
        /\ \A v \in Uniques : pending'[v] = pending[v] \/ pending'[v] = NoRequest
        /\ \A v \in sent' : pending'[v] = pending[v]
    BY <1>1, SendFacts DEF IInv
  <1>3. SentInv' /\ ServedInv'
    BY <1>1, <1>2 DEF IInv, SentInv, ServedInv
  <1>4. current.op \notin NoReply => u \in sent
    BY <1>1 DEF IInv, SentInv
  <1>5. current.op \in NoReply => destroyed
    <2> SUFFICES ASSUME current.op \in NoReply PROVE destroyed
      OBVIOUS
    <2>1. /\ current.op \in NoUid /\ current.op \in Methods
          /\ current.op \notin Unknown /\ current.op \notin Inits
          /\ current.op # "Destroy"
      BY DEF NoReply, NoUid, Methods, Unknown, Inits
    <2>2. initialized
      BY <1>1, <2>1 DEF IInv, ServedInv
    <2> QED BY <1>1, <2>1, <2>2 DEF Arm
  <1>6. stray' \subseteq NoReply /\ (stray' # {} => destroyed')
    BY <1>2, <1>4, <1>5 DEF IInv, RepliesMatch
  <1> QED BY <1>1, <1>2, <1>3, <1>4, <1>6 DEF IInv, RepliesMatch

(* What the answer leaves of the types and of DESTROY.                     *)
LEMMA SendTypes ==
  ASSUME IInv, current # NoRequest, current.unique \in Uniques,
         Send(current.unique, current.op)
  PROVE  /\ sent' \subseteq sent
         /\ stray' \subseteq AllOperations \cup {"Deferred"}
         /\ pending' \in [Uniques -> Requests \cup {NoRequest}]
         /\ \A v \in Uniques :
              IsDestroy(v)' => IsDestroy(v) /\ (v \in sent => v \in sent')
  <1>1. current.op \in AllOperations
    BY DEF IInv, TypeOK, Received
  <1> QED BY <1>1, SendFacts DEF IInv, TypeOK

LEMMA ReplyErrStep ==
  ASSUME IInv, reply_err
  PROVE  IInv'
  <1>1. PICK arm \in {"ENOSYS", "EACCES", "EIO"} : Dispatch(arm)
    BY DEF reply_err
  <1>2. /\ Send(current.unique, current.op)
        /\ UNCHANGED <<initialized, destroyed, se, replies, filesystem, kinit>>
    BY DEF reply_err
  <1>3. /\ current # NoRequest /\ current' = NoRequest
        /\ current.unique \in Uniques
        /\ options' = options /\ owner' = owner /\ conn' = conn
    BY <1>1, DispatchFacts
  <1>4. /\ sent' \subseteq sent /\ stray' \subseteq AllOperations \cup {"Deferred"}
        /\ pending' \in [Uniques -> Requests \cup {NoRequest}]
        /\ \A v \in Uniques :
             IsDestroy(v)' => IsDestroy(v) /\ (v \in sent => v \in sent')
    BY <1>2, <1>3, SendTypes
  <1>5. TypeOK' /\ LoopInv' /\ FlagsInv'
    BY <1>2, <1>3, <1>4 DEF IInv, TypeOK, LoopInv, FlagsInv
  <1>6. DestroyInv'
    BY <1>2, <1>3, <1>4 DEF IInv, DestroyInv
  <1>7. kinit' = "done" => initialized'
    BY <1>2 DEF IInv, ServedInv
  <1>8. RepliesMatch' /\ SentInv' /\ ServedInv'
    BY <1>1, <1>2, <1>7, AnsweredInLoop
  <1> QED BY <1>5, <1>6, <1>8 DEF IInv

(* init fails, succeeds, or succeeds and another INIT takes its place.     *)
LEMMA InitStep ==
  ASSUME IInv, dispatch_init
  PROVE  IInv'
  <1> DEFINE u == current.unique
  <1>1. Dispatch("init") /\ UNCHANGED <<destroyed, se, replies>>
    BY DEF dispatch_init
  <1>2. /\ current # NoRequest /\ current' = NoRequest /\ u \in Uniques
        /\ options' = options /\ owner' = owner /\ conn' = conn
        /\ u \notin replies /\ se = "running"
        /\ Connected' => Connected
    BY <1>1, DispatchFacts
  <1>3. \/ UNCHANGED <<initialized, filesystem>> /\ kinit' = "failed"
        \/ initialized' = TRUE /\ filesystem' = [filesystem EXCEPT !.init = TRUE]
    BY DEF dispatch_init
  <1>4. /\ filesystem' \in [init : BOOLEAN, destroy : Nat, unwound : Nat]
        /\ initialized' \in BOOLEAN
        /\ initialized' = filesystem'.init
        /\ initialized => initialized'
        /\ kinit' = "done" => initialized'
        /\ filesystem'.destroy = filesystem.destroy
        /\ filesystem'.unwound = filesystem.unwound
    BY <1>3 DEF IInv, TypeOK, FlagsInv
  <1>5. FlagsInv' /\ LoopInv'
    BY <1>1, <1>2, <1>4 DEF IInv, FlagsInv, LoopInv
  <1>6. CASE Send(u, current.op)
    <2>1. /\ sent' \subseteq sent /\ stray' \subseteq AllOperations \cup {"Deferred"}
          /\ pending' \in [Uniques -> Requests \cup {NoRequest}]
          /\ \A v \in Uniques :
               IsDestroy(v)' => IsDestroy(v) /\ (v \in sent => v \in sent')
      BY <1>6, <1>2, SendTypes
    <2>2. TypeOK'
      BY <1>1, <1>2, <1>4, <2>1 DEF IInv, TypeOK
    <2>3. DestroyInv'
      BY <1>1, <1>2, <2>1 DEF IInv, DestroyInv
    <2>4. RepliesMatch' /\ SentInv' /\ ServedInv'
      BY <1>1, <1>4, <1>6, AnsweredInLoop
    <2> QED BY <1>5, <2>2, <2>3, <2>4 DEF IInv
  <1>7. CASE /\ current.op = "InitNewer" /\ Connected /\ initialized' = TRUE
             /\ pending' = [pending EXCEPT ![u] = Request("Init", root)]
             /\ sent' = sent \ {u} /\ stray' = stray
    <2>1. "Init" \in AllOperations /\ "InitNewer" \notin NoReply
      BY DEF AllOperations, Inits, NoReply
    <2>2. TypeOK'
      BY <1>1, <1>2, <1>4, <1>7, <2>1, OperationKinds DEF IInv, TypeOK
    <2>3. \A v \in Uniques :
            IsDestroy(v)' => IsDestroy(v) /\ (v \in sent => v \in sent')
      BY <1>2, <1>7 DEF IInv, TypeOK, IsDestroy, Request
    <2>4. DestroyInv'
      BY <1>1, <1>2, <2>3 DEF IInv, DestroyInv
    <2>5. \A v \in sent' : v \in sent /\ pending'[v] = pending[v]
      BY <1>7 DEF IInv, TypeOK
    <2>6. RepliesMatch'
      BY <1>1, <1>2, <1>7, <2>1, <2>5 DEF IInv, RepliesMatch
    <2>7. SentInv' /\ ServedInv'
      BY <1>2, <1>7, <2>5 DEF IInv, SentInv, ServedInv
    <2> QED BY <1>5, <2>2, <2>4, <2>6, <2>7 DEF IInv
  <1>8. \/ Send(u, current.op)
        \/ /\ current.op = "InitNewer" /\ Connected /\ initialized' = TRUE
           /\ pending' = [pending EXCEPT ![u] = Request("Init", root)]
           /\ sent' = sent \ {u} /\ stray' = stray
    BY DEF dispatch_init
  <1> QED BY <1>6, <1>7, <1>8

(* init or destroy panics: its request is in nobody's hands any more.      *)
LEMMA Unwinds ==
  ASSUME IInv, NEW arm \in {"init", "destroy"}, Dispatch(arm),
         se' = "unwinding",
         UNCHANGED <<initialized, destroyed, replies, kinit, pending, sent, stray>>,
         filesystem' \in [init : BOOLEAN, destroy : Nat, unwound : Nat],
         filesystem'.init = filesystem.init,
         filesystem'.destroy = filesystem.destroy,
         \/ filesystem'.unwound = filesystem.unwound
         \/ initialized /\ ~destroyed /\ filesystem'.unwound = filesystem.unwound + 1
  PROVE  IInv'
  <1>1. /\ current # NoRequest /\ current' = NoRequest /\ se = "running"
        /\ current \in Received /\ current.unique \in Uniques
        /\ options' = options /\ owner' = owner /\ conn' = conn
        /\ Connected' => Connected
        /\ Arm(current) = arm
    BY DispatchFacts
  <1>2. filesystem.unwound = 0 /\ filesystem.unwound \in Nat
    BY <1>1 DEF IInv, TypeOK, FlagsInv
  <1>3. TypeOK' /\ LoopInv' /\ FlagsInv'
    BY <1>1, <1>2 DEF IInv, TypeOK, LoopInv, FlagsInv
  <1>4. DestroyInv'
    BY <1>1 DEF IInv, DestroyInv, IsDestroy
  <1>5. SentInv' /\ ServedInv'
    BY <1>1 DEF IInv, SentInv, ServedInv
  <1>6. current.op \in Inits \cup {"Destroy"}
    BY <1>1 DEF Arm
  <1>7. pending[current.unique].op \in Inits \cup {"Destroy"}
    BY <1>1, <1>6, OperationKinds DEF IInv, SentInv
  <1>8. RepliesMatch'
    BY <1>1, <1>7 DEF IInv, RepliesMatch
  <1> QED BY <1>3, <1>4, <1>5, <1>8 DEF IInv

(* destroy is called for the only DESTROY there is.                        *)
LEMMA DestroyStep ==
  ASSUME IInv, dispatch_destroy \/ DestroyPanics
  PROVE  IInv'
  <1>1. Dispatch("destroy")
    BY DEF dispatch_destroy, DestroyPanics
  <1>2. /\ current # NoRequest /\ current' = NoRequest
        /\ current.unique \in Uniques /\ se = "running"
        /\ options' = options /\ owner' = owner /\ conn' = conn
        /\ Arm(current) = "destroy"
    BY <1>1, DispatchFacts
  <1>3. current.op = "Destroy" /\ initialized
    BY <1>2 DEF Arm
  <1>4. ~destroyed /\ conn # "up"
    BY <1>2, <1>3 DEF IInv, DestroyInv
  <1>5. CASE DestroyPanics
    <2>1. /\ se' = "unwinding" /\ filesystem' = destroy_panics(filesystem)
          /\ UNCHANGED <<initialized, destroyed, replies, kinit, pending, sent,
                         stray>>
      BY <1>5 DEF DestroyPanics
    <2>2. /\ filesystem' \in [init : BOOLEAN, destroy : Nat, unwound : Nat]
          /\ filesystem'.init = filesystem.init
          /\ filesystem'.destroy = filesystem.destroy
          /\ filesystem'.unwound = filesystem.unwound + 1
      BY <2>1 DEF IInv, TypeOK, destroy_panics
    <2> QED BY <1>1, <1>3, <1>4, <2>1, <2>2, Unwinds
  <1>6. CASE dispatch_destroy
    <2>1. /\ filesystem' = destroy(filesystem) /\ destroyed' = TRUE
          /\ Send(current.unique, current.op)
          /\ UNCHANGED <<initialized, se, replies, kinit>>
      BY <1>6 DEF dispatch_destroy
    <2>2. /\ filesystem' \in [init : BOOLEAN, destroy : Nat, unwound : Nat]
          /\ filesystem'.init = filesystem.init /\ filesystem'.destroy = 1
          /\ filesystem'.unwound = 0
      BY <1>2, <1>4, <2>1 DEF IInv, TypeOK, FlagsInv, destroy
    <2>3. /\ sent' \subseteq sent /\ stray' \subseteq AllOperations \cup {"Deferred"}
          /\ pending' \in [Uniques -> Requests \cup {NoRequest}]
          /\ \A v \in Uniques :
               IsDestroy(v)' => IsDestroy(v) /\ (v \in sent => v \in sent')
      BY <2>1, <1>2, SendTypes
    <2>4. TypeOK' /\ LoopInv' /\ FlagsInv'
      BY <1>2, <2>1, <2>2, <2>3 DEF IInv, TypeOK, LoopInv, FlagsInv
    <2>5. DestroyInv'
      BY <1>2, <1>3, <1>4, <2>1, <2>3 DEF IInv, DestroyInv
    <2>6. RepliesMatch' /\ SentInv' /\ ServedInv'
      BY <1>1, <1>3, <2>1, AnsweredInLoop
    <2> QED BY <2>4, <2>5, <2>6 DEF IInv
  <1> QED BY <1>5, <1>6

(* A method answers at once, or panics and its Reply answers.              *)
LEMMA MethodStep ==
  ASSUME IInv, dispatch_method
  PROVE  IInv'
  <1>1. /\ Dispatch("method")
        /\ \/ /\ current.op \in NoReply
              /\ UNCHANGED <<pending, sent, stray>>
           \/ current.op \notin NoReply /\ Send(current.unique, current.op)
        /\ se' \in {"running", "unwinding"}
        /\ UNCHANGED <<initialized, destroyed, replies, filesystem, kinit>>
    BY DEF dispatch_method
  <1>2. /\ current # NoRequest /\ current' = NoRequest
        /\ current.unique \in Uniques /\ se = "running"
        /\ options' = options /\ owner' = owner /\ conn' = conn
        /\ Connected' => Connected
    BY <1>1, DispatchFacts
  <1>3. /\ sent' \subseteq sent /\ stray' \subseteq AllOperations \cup {"Deferred"}
        /\ pending' \in [Uniques -> Requests \cup {NoRequest}]
        /\ \A v \in Uniques :
             IsDestroy(v)' => IsDestroy(v) /\ (v \in sent => v \in sent')
    <2>1. CASE UNCHANGED <<pending, sent, stray>>
      BY <2>1 DEF IInv, TypeOK, IsDestroy
    <2>2. CASE Send(current.unique, current.op)
      BY <2>2, <1>2, SendTypes
    <2> QED BY <1>1, <2>1, <2>2
  <1>4. TypeOK' /\ LoopInv' /\ FlagsInv'
    BY <1>1, <1>2, <1>3 DEF IInv, TypeOK, LoopInv, FlagsInv
  <1>5. DestroyInv'
    BY <1>1, <1>2, <1>3 DEF IInv, DestroyInv
  <1>6. RepliesMatch' /\ SentInv' /\ ServedInv'
    <2>1. CASE current.op \notin NoReply /\ Send(current.unique, current.op)
      <3>1. kinit' = "done" => initialized'
        BY <1>1 DEF IInv, ServedInv
      <3> QED BY <1>1, <2>1, <3>1, AnsweredInLoop
    <2>2. CASE current.op \in NoReply /\ UNCHANGED <<pending, sent, stray>>
      BY <1>1, <1>2, <2>2 DEF IInv, RepliesMatch, SentInv, ServedInv
    <2> QED BY <1>1, <2>1, <2>2
  <1> QED BY <1>4, <1>5, <1>6 DEF IInv

(* The Reply moves from the loop to another thread.                        *)
LEMMA DeferStep ==
  ASSUME IInv, DeferReply
  PROVE  IInv'
  <1>1. /\ Dispatch("method")
        /\ current.op \notin NoReply
        /\ replies' = replies \cup {current.unique}
        /\ UNCHANGED <<initialized, destroyed, se, filesystem, kinit, pending,
                       sent, stray>>
    BY DEF DeferReply
  <1>2. /\ current # NoRequest /\ current' = NoRequest
        /\ current.unique \in Uniques /\ se = "running"
        /\ options' = options /\ owner' = owner /\ conn' = conn
        /\ Connected' => Connected
    BY <1>1, DispatchFacts
  <1>3. TypeOK' /\ LoopInv' /\ FlagsInv'
    BY <1>1, <1>2 DEF IInv, TypeOK, LoopInv, FlagsInv
  <1>4. DestroyInv'
    BY <1>1, <1>2 DEF IInv, DestroyInv, IsDestroy
  <1>5. SentInv' /\ ServedInv'
    BY <1>1, <1>2 DEF IInv, SentInv, ServedInv
  <1>6. RepliesMatch'
    BY <1>1, <1>2 DEF IInv, RepliesMatch
  <1> QED BY <1>3, <1>4, <1>5, <1>6 DEF IInv

(* Another thread uses or drops the Reply it has.                          *)
LEMMA DeferredStep ==
  ASSUME IInv, NEW u \in Uniques, AnswerDeferred(u)
  PROVE  IInv'
  <1>1. /\ u \in replies /\ replies' = replies \ {u}
        /\ Send(u, "Deferred")
        /\ UNCHANGED <<options, owner, initialized, destroyed, se, current,
                       mount, filesystem, conn, kinit>>
    BY DEF AnswerDeferred, send_ll_mut, session
  <1>2. Connected' => Connected
    BY <1>1, StaysDown
  <1>3. Connected => u \in sent
    BY <1>1 DEF IInv, RepliesMatch
  <1>4. /\ sent' \subseteq sent /\ stray' = stray
        /\ pending' \in [Uniques -> Requests \cup {NoRequest}]
        /\ \A v \in Uniques :
             IsDestroy(v)' => IsDestroy(v) /\ (v \in sent => v \in sent')
        /\ sent \ {u} \subseteq sent'
        /\ Connected /\ u \in sent => sent' = sent \ {u}
        /\ \A v \in Uniques : pending'[v] = pending[v] \/ pending'[v] = NoRequest
        /\ \A v \in sent' : pending'[v] = pending[v]
    BY <1>1, <1>3, SendFacts DEF IInv
  <1>5. TypeOK' /\ LoopInv' /\ FlagsInv'
    BY <1>1, <1>4 DEF IInv, TypeOK, LoopInv, FlagsInv
  <1>6. DestroyInv'
    BY <1>1, <1>4 DEF IInv, DestroyInv
  <1>7. ServedInv'
    BY <1>1, <1>4 DEF IInv, ServedInv
  <1>8. SentInv'
    <2>1. current # NoRequest => current.unique # u
      BY <1>1 DEF IInv, LoopInv
    <2> QED BY <1>1, <1>4, <2>1 DEF IInv, SentInv
  <1>9. RepliesMatch'
    <2>1. current # NoRequest => current.unique # u
      BY <1>1 DEF IInv, LoopInv
    <2> QED BY <1>1, <1>2, <1>3, <1>4, <2>1 DEF IInv, RepliesMatch
  <1> QED BY <1>5, <1>6, <1>7, <1>8, <1>9 DEF IInv

(* The loop begins or ends.                                                *)
LEMMA LoopEndStep ==
  ASSUME IInv, current = NoRequest,
         \/ se = "new" /\ se' = "running"
         \/ se = "running" /\ se' = "returned",
         UNCHANGED <<options, owner, initialized, destroyed, current,
                     replies, filesystem, conn, kinit, pending, sent, stray>>,
         mount' = mount \/ mount # "dropped"
  PROVE  IInv'
  <1>1. Connected' => Connected
    BY StaysDown
  <1>2. TypeOK' /\ LoopInv' /\ FlagsInv' /\ SentInv' /\ ServedInv'
    BY DEF IInv, TypeOK, LoopInv, FlagsInv, SentInv, ServedInv
  <1>3. DestroyInv'
    BY DEF IInv, DestroyInv, IsDestroy
  <1>4. RepliesMatch'
    BY <1>1 DEF IInv, RepliesMatch
  <1> QED BY <1>2, <1>3, <1>4 DEF IInv

-----------------------------------------------------------------------------
(* The program.                                                            *)

(* Dropping the Mount of a session that still exists, or not.              *)
LEMMA MountDropStep ==
  ASSUME IInv, MountDrop, mount # "dropped",
         UNCHANGED <<options, owner, initialized, destroyed, se, current,
                     replies, filesystem, kinit, sent, stray>>
  PROVE  IInv'
  BY Unchanged, UmountStep DEF MountDrop

(* What a destroy that returns and one that panics leave behind.           *)
LEMMA DestroyCalls ==
  ASSUME TypeOK
  PROVE  /\ destroy(filesystem) \in [init : BOOLEAN, destroy : Nat, unwound : Nat]
         /\ destroy(filesystem).init = filesystem.init
         /\ destroy(filesystem).destroy = filesystem.destroy + 1
         /\ destroy(filesystem).unwound = filesystem.unwound
         /\ destroy_panics(filesystem) \in
              [init : BOOLEAN, destroy : Nat, unwound : Nat]
         /\ destroy_panics(filesystem).init = filesystem.init
         /\ destroy_panics(filesystem).destroy = filesystem.destroy
         /\ destroy_panics(filesystem).unwound = filesystem.unwound + 1
         /\ filesystem.destroy \in Nat /\ filesystem.unwound \in Nat
  BY DEF TypeOK, destroy, destroy_panics

(* Session::drop calls destroy unless a call for DESTROY has returned. The *)
(* Mount goes with it, without a DESTROY: nobody would read it.            *)
LEMMA DropStep ==
  ASSUME IInv, drop
  PROVE  IInv'
  <1>1. /\ se \in {"new", "returned", "unwinding"} /\ se' = "dropped"
        /\ \/ /\ destroyed' = TRUE
              /\ filesystem' = IF destroyed THEN filesystem ELSE destroy(filesystem)
           \/ /\ ~destroyed /\ destroyed' = destroyed
              /\ filesystem' = destroy_panics(filesystem)
        /\ UNCHANGED <<options, owner, initialized, current, replies, kinit,
                       sent, stray>>
    BY DEF drop, DestroyOnDrop
  <1>2. current = NoRequest
    BY <1>1 DEF IInv, LoopInv
  <1>3. /\ mount' = mount \/ mount # "dropped"
        /\ pending' = pending
        /\ conn' = conn \/ (conn = "up" /\ conn' = "down")
    BY <1>1 DEF drop, MountDrop, NoMountDrop, Umount
  <1>4. Connected' => Connected
    BY <1>1, <1>3, StaysDown
  <1>5. /\ filesystem' \in [init : BOOLEAN, destroy : Nat, unwound : Nat]
        /\ filesystem'.init = filesystem.init
        /\ filesystem'.destroy = IF destroyed' THEN 1 ELSE 0
        /\ destroyed' \/ filesystem'.unwound > 0
        /\ destroyed' \in BOOLEAN /\ (destroyed => destroyed')
    <2>1. CASE destroyed
      BY <1>1, <2>1 DEF IInv, TypeOK, FlagsInv
    <2>2. CASE ~destroyed
      <3>1. filesystem.destroy = 0 /\ TypeOK /\ destroyed = FALSE
        BY <2>2 DEF IInv, TypeOK, FlagsInv
      <3>2. \/ destroyed' = TRUE /\ filesystem' = destroy(filesystem)
            \/ destroyed' = FALSE /\ filesystem' = destroy_panics(filesystem)
        BY <1>1, <2>2, <3>1
      <3>3. CASE destroyed' = TRUE /\ filesystem' = destroy(filesystem)
        BY <3>1, <3>3, DestroyCalls
      <3>4. CASE destroyed' = FALSE /\ filesystem' = destroy_panics(filesystem)
        <4>1. /\ filesystem' \in [init : BOOLEAN, destroy : Nat, unwound : Nat]
              /\ filesystem'.init = filesystem.init
              /\ filesystem'.destroy = 0
              /\ filesystem'.unwound > 0
          BY <3>1, <3>4, DestroyCalls
        <4> QED BY <2>2, <3>4, <4>1
      <3> QED BY <3>2, <3>3, <3>4
    <2> QED BY <2>1, <2>2
  <1>6. TypeOK' /\ LoopInv' /\ FlagsInv'
    BY <1>1, <1>2, <1>3, <1>5 DEF IInv, TypeOK, LoopInv, FlagsInv
  <1>7. DestroyInv'
    BY <1>1, <1>2, <1>3 DEF IInv, DestroyInv, IsDestroy
  <1>8. SentInv' /\ ServedInv'
    BY <1>1, <1>3 DEF IInv, SentInv, ServedInv
  <1>9. RepliesMatch'
    BY <1>1, <1>3, <1>4, <1>5 DEF IInv, RepliesMatch
  <1> QED BY <1>6, <1>7, <1>8, <1>9 DEF IInv

LEMMA AbortStep ==
  ASSUME IInv, Abort
  PROVE  IInv'
  <1>1. /\ se = "unwinding" /\ ~destroyed
        /\ filesystem' = destroy_panics(filesystem)
        /\ se' = "dropped" /\ mount' = "dropped" /\ replies' = {}
        /\ UNCHANGED <<options, owner, initialized, destroyed, current, conn,
                       kinit, pending, sent, stray>>
    BY DEF Abort, kernel
  <1>2. current = NoRequest
    BY <1>1 DEF IInv, LoopInv
  <1>3. ~Connected'
    BY <1>1 DEF Connected, DeviceOpen
  <1>4. TypeOK' /\ LoopInv' /\ FlagsInv'
    BY <1>1, <1>2, DestroyCalls DEF IInv, TypeOK, LoopInv, FlagsInv
  <1>5. DestroyInv'
    BY <1>1, <1>2 DEF IInv, DestroyInv, IsDestroy
  <1>6. SentInv' /\ ServedInv'
    BY <1>1 DEF IInv, SentInv, ServedInv
  <1>7. RepliesMatch'
    BY <1>1, <1>2, <1>3 DEF IInv, RepliesMatch
  <1> QED BY <1>4, <1>5, <1>6, <1>7 DEF IInv

LEMMA ProgramSteps ==
  ASSUME IInv, ProgramStep
  PROVE  IInv'
  <1>1. CASE run \/ BackgroundSession_new
    <2>1. se = "new" /\ current = NoRequest
      BY <1>1 DEF run, BackgroundSession_new, IInv, LoopInv
    <2> QED BY <1>1, <2>1, LoopEndStep DEF run, BackgroundSession_new, kernel
  <1>2. CASE unmount_callable
    BY <1>2, Unchanged DEF unmount_callable, kernel
  <1>3. CASE unmount \/ join
    BY <1>3, MountDropStep DEF unmount, join
  <1>4. CASE DropUnmounter
    <2>1. CASE se = "dropped" /\ mount = "session"
      BY <1>4, <2>1, MountDropStep DEF DropUnmounter
    <2>2. CASE ~(se = "dropped" /\ mount = "session")
      BY <1>4, <2>2, Unchanged DEF DropUnmounter, NoMountDrop
    <2> QED BY <2>1, <2>2
  <1>5. CASE drop
    BY <1>5, DropStep
  <1>6. CASE Abort
    BY <1>6, AbortStep
  <1> QED BY <1>1, <1>2, <1>3, <1>4, <1>5, <1>6 DEF ProgramStep

-----------------------------------------------------------------------------
LEMMA InitHolds == Init => IInv
  <1> SUFFICES ASSUME Init PROVE IInv
    OBVIOUS
  <1>1. PICK op \in Inits :
          pending = [u \in Uniques |-> IF u = FirstUnique THEN Request(op, root)
                                       ELSE NoRequest]
    BY DEF Init
  <1>2. op \in AllOperations /\ op # "Destroy"
    BY OperationKinds DEF AllOperations
  <1>3. TypeOK
    BY <1>1, <1>2, OperationKinds DEF Init, TypeOK
  <1>4. \A u \in Uniques : ~IsDestroy(u)
    BY <1>1, <1>2 DEF IsDestroy, Request
  <1>5. DestroyInv
    BY <1>4 DEF Init, DestroyInv
  <1>6. LoopInv /\ RepliesMatch /\ SentInv
    BY DEF Init, LoopInv, RepliesMatch, SentInv
  <1>8. FlagsInv
    <2>1. /\ filesystem.init = FALSE /\ filesystem.destroy = 0
          /\ filesystem.unwound = 0
          /\ initialized = FALSE /\ destroyed = FALSE /\ se = "new"
      BY DEF Init
    <2>2. ~(filesystem.unwound > 0)
      BY <2>1
    <2>3. initialized = filesystem.init
      BY <2>1
    <2>4. filesystem.destroy = IF destroyed THEN 1 ELSE 0
      BY <2>1
    <2> QED BY <2>1, <2>2, <2>3, <2>4, Zenon DEF FlagsInv
  <1>7. ServedInv
    BY <1>1 DEF Init, ServedInv, Request
  <1> QED BY <1>3, <1>5, <1>6, <1>7, <1>8 DEF IInv

(* Every step keeps the invariant.                                         *)
LEMMA StepHolds == IInv /\ [Next]_vars => IInv'
  <1> SUFFICES ASSUME IInv, [Next]_vars PROVE IInv'
    OBVIOUS
  <1>1. CASE KernelStep
    BY <1>1, KernelSteps
  <1>2. CASE \E u \in Uniques : receive(u) \/ AnswerDeferred(u)
    BY <1>2, ReceiveStep, DeferredStep
  <1>3. CASE run_returns
    BY <1>3, LoopEndStep DEF run_returns, kernel
  <1>4. CASE dispatch
    <2>1. CASE InitPanics
      BY <2>1, Unwinds DEF InitPanics, IInv, TypeOK
    <2> QED
      BY <1>4, <2>1, ReplyErrStep, InitStep, DestroyStep, MethodStep, DeferStep
      DEF dispatch
  <1>5. CASE ProgramStep
    BY <1>5, ProgramSteps
  <1>6. CASE UNCHANGED vars
    BY <1>6, Unchanged DEF vars, session, kernel
  <1> QED BY <1>1, <1>2, <1>3, <1>4, <1>5, <1>6 DEF Next

(* The session is in a state of the inductive invariant throughout.        *)
THEOREM Inductive == Spec => []IInv
  BY InitHolds, StepHolds, PTL DEF Spec

(* While the connection lasts, a request that the kernel waits for is in   *)
(* exactly one hand, but for an INIT or DESTROY that panicked; nothing is  *)
(* answered twice, and of what wants no answer only a FORGET after DESTROY *)
(* is answered.                                                            *)
THEOREM RepliedOnce == Spec => []RepliesMatch
  <1>1. IInv => RepliesMatch
    BY DEF IInv
  <1> QED BY <1>1, Inductive, PTL

(* Methods are called between init and the first destroy; destroy is       *)
(* called before the session is gone, and again only by Session::drop      *)
(* after the call for DESTROY panicked.                                    *)
THEOREM LifecycleSafety == Spec => Lifecycle
  <1> DEFINE A ==
        /\ CallsMethod => filesystem.init /\ Destroys(filesystem) = 0
        /\ Destroys(filesystem') # Destroys(filesystem) =>
             \/ Destroys(filesystem) = 0
             \/ filesystem = [init |-> TRUE, destroy |-> 0, unwound |-> 1] /\ se' = "dropped"
        /\ se' = "dropped" => Destroys(filesystem') > 0
  <1>1. IInv /\ IInv' /\ [Next]_vars => [A]_vars
    <2> SUFFICES ASSUME IInv, IInv', Next PROVE A
      BY DEF vars
    <2>1. CallsMethod => filesystem.init /\ Destroys(filesystem) = 0
      <3> SUFFICES ASSUME CallsMethod
                   PROVE  filesystem.init /\ Destroys(filesystem) = 0
        OBVIOUS
      <3>1. Arm(current) = "method" /\ se = "running"
        BY DEF CallsMethod, dispatch_method, DeferReply, Dispatch
      <3>2. initialized /\ ~destroyed
        BY <3>1 DEF Arm
      <3> QED BY <3>1, <3>2 DEF IInv, TypeOK, FlagsInv, Destroys
    <2>2. se' = "dropped" => Destroys(filesystem') > 0
      BY DEF IInv, TypeOK, FlagsInv, Destroys
    <2>3. ASSUME Destroys(filesystem') # Destroys(filesystem),
                 Destroys(filesystem) # 0
          PROVE  filesystem = [init |-> TRUE, destroy |-> 0, unwound |-> 1] /\ se' = "dropped"
      <3>1. \/ dispatch_destroy \/ DestroyPanics
            \/ (drop \/ Abort) /\ ~destroyed
        <4>1. filesystem' # filesystem
          BY <2>3
        <4>2. ~KernelStep
          BY <4>1 DEF KernelStep, NewRequest, ExternalUmount, DestroyAnswered
        <4>3. ~\E u \in Uniques : receive(u) \/ AnswerDeferred(u)
          BY <4>1 DEF receive, AnswerDeferred
        <4>4. ~(run_returns \/ reply_err \/ InitPanics \/ dispatch_method \/ DeferReply)
          BY <4>1 DEF run_returns, reply_err, InitPanics, dispatch_method,
                      DeferReply
        <4>5. ~dispatch_init
          <5>1. dispatch_init => \/ filesystem' = filesystem
                                 \/ filesystem' = [filesystem EXCEPT !.init = TRUE]
            BY DEF dispatch_init
          <5> QED BY <5>1, <2>3 DEF IInv, TypeOK, Destroys
        <4>6. ~(run \/ unmount_callable \/ BackgroundSession_new \/ unmount
                  \/ join \/ DropUnmounter)
          BY <4>1 DEF run, unmount_callable, BackgroundSession_new, unmount,
                      join, DropUnmounter
        <4>7. drop \/ Abort => ~destroyed
          BY <4>1 DEF drop, DestroyOnDrop, Abort
        <4> QED
          BY <4>2, <4>3, <4>4, <4>5, <4>6, <4>7 DEF Next, dispatch, ProgramStep
      <3>2. ~(dispatch_destroy \/ DestroyPanics)
        <4> SUFFICES ASSUME dispatch_destroy \/ DestroyPanics PROVE FALSE
          OBVIOUS
        <4>1. Dispatch("destroy")
          BY DEF dispatch_destroy, DestroyPanics
        <4>2. se = "running" /\ current # NoRequest /\ current.op = "Destroy"
          BY <4>1 DEF Dispatch, Arm
        <4>3. ~destroyed
          BY <4>2 DEF IInv, DestroyInv
        <4> QED BY <2>3, <4>2, <4>3 DEF IInv, TypeOK, FlagsInv, Destroys
      <3>3. ~destroyed /\ se' = "dropped" /\ se \in {"new", "returned", "unwinding"}
        BY <3>1, <3>2 DEF drop, Abort
      <3>4. filesystem.unwound > 0 /\ filesystem.destroy = 0
        BY <2>3, <3>3 DEF IInv, TypeOK, FlagsInv, Destroys
      <3> QED BY <3>3, <3>4 DEF IInv, TypeOK, FlagsInv
    <2> QED BY <2>1, <2>2, <2>3
  <1> QED BY <1>1, Inductive, PTL DEF Spec, Lifecycle

-----------------------------------------------------------------------------
(* The negotiation in INIT.                                                *)

(* What the kernel's INIT request offers.                                  *)
Offer(flags, readahead) == [flags |-> flags, max_readahead |-> readahead]

(* What init can make of the configuration that KernelConfig::new makes of *)
(* the kernel's offer: the offer itself does not change, and every value   *)
(* is one that the setters let through.                                    *)
Agreeable(flags, readahead) ==
  /\ config \in [capabilities : SUBSET Nat, requested : SUBSET Nat,
                 max_readahead : Nat, max_max_readahead : Nat,
                 max_background : Nat, congestion_threshold : Nat,
                 max_write : Nat, time_gran : Nat]
  /\ config.capabilities = flags
  /\ config.max_max_readahead = readahead
  /\ config.max_readahead <= readahead
  /\ config.max_write \in 1 .. MAX_WRITE_SIZE
  /\ 0 < config.max_background /\ config.max_background < 65536
  /\ config.time_gran \in Tens

(* The sizes are numbers, and none needs more than 65535 pages.            *)
LEMMA SizesAre ==
  /\ MAX_WRITE_SIZE \in Nat \ {0} /\ PageSize \in Nat \ {0}
  /\ MAX_WRITE_SIZE <= 65535 * PageSize
  /\ \A r \in KernelReadaheads : r \in Nat /\ r <= 65535 * PageSize
  <1> DEFINE M == 65535 * PageSize
  <1>1. M \in Int
    BY SizesAssumption
  <1>2. MAX_WRITE_SIZE <= M /\ KernelReadaheads \subseteq 0 .. M
    BY SizesAssumption
  <1> HIDE DEF M
  <1>3. MAX_WRITE_SIZE <= M /\ \A r \in KernelReadaheads : r \in Nat /\ r <= M
    BY <1>1, <1>2
  <1> QED BY <1>3, SizesAssumption DEF M

(* Pages, rounded up, hold what they are for, and fit into 16 bits if that *)
(* does.                                                                   *)
LEMMA PagesHold ==
  ASSUME NEW P \in Nat \ {0}, NEW n \in Nat \ {0}, n <= 65535 * P
  PROVE  LET q == (n - 1) \div P IN q \in Nat /\ q <= 65534 /\ (q + 1) * P >= n
  <1> DEFINE q == (n - 1) \div P
  <1>1. q \in Nat /\ n - 1 = P * q + ((n - 1) % P) /\ (n - 1) % P \in 0 .. P - 1
    OBVIOUS
  <1> HIDE DEF q
  <1>2. P * q <= n - 1 /\ n - 1 < P * q + P
    BY <1>1
  <1>3. (q + 1) * P = P * q + P
    BY <1>1
  <1>4. q <= 65534
    <2> SUFFICES ASSUME q >= 65535 PROVE FALSE
      BY <1>1
    <2>1. P * q >= P * 65535
      BY <1>1
    <2> QED BY <1>1, <1>2, <2>1
  <1>5. q \in Nat /\ q <= 65534
    BY <1>1, <1>4
  <1>6. (q + 1) * P >= n
    BY <1>1, <1>2, <1>3
  <1> QED BY <1>5, <1>6 DEF q

(* The arithmetic of the two values that the reply computes.               *)
LEMMA ReplyValues ==
  ASSUME NEW flags \in KernelCaps, NEW readahead \in KernelReadaheads,
         Agreeable(flags, readahead)
  PROVE  /\ 0 < max_pages(config) /\ max_pages(config) < 65536
         /\ max_pages(config) * PageSize >= config.max_write
         /\ max_pages(config) * PageSize >= config.max_readahead
         /\ congestion_threshold(config) <= config.max_background
  <1> DEFINE n == IF config.max_write >= config.max_readahead
                    THEN config.max_write ELSE config.max_readahead
             q == (n - 1) \div PageSize
             P == PageSize
  <1>1. /\ config.max_write \in Nat \ {0} /\ config.max_readahead \in Nat
        /\ P \in Nat \ {0}
        /\ config.max_write <= 65535 * P /\ config.max_readahead <= 65535 * P
    BY SizesAre DEF Agreeable
  <1>2. /\ n \in Nat \ {0} /\ n <= 65535 * P
        /\ n >= config.max_write /\ n >= config.max_readahead
    BY <1>1
  <1>3. max_pages(config) = ((q % 65536) + 1) % 65536
    BY DEF max_pages
  <1> HIDE DEF n, P
  <1>4. q \in Nat /\ q <= 65534 /\ (q + 1) * P >= n
    BY <1>1, <1>2, PagesHold DEF P
  <1> HIDE DEF q
  <1>5. max_pages(config) = q + 1 /\ 0 < q + 1 /\ q + 1 < 65536
    BY <1>3, <1>4
  <1> DEFINE size == (q + 1) * P
  <1>6. size \in Int /\ size >= n
    BY <1>1, <1>4
  <1>7. max_pages(config) * PageSize = size
    BY <1>5 DEF P
  <1> HIDE DEF size
  <1>8. size >= config.max_write /\ size >= config.max_readahead
    BY <1>1, <1>2, <1>6
  <1>9. congestion_threshold(config) <= config.max_background
    BY DEF Agreeable, congestion_threshold
  <1> QED BY <1>5, <1>7, <1>8, <1>9

(* What init leaves behind suits the kernel and the session.               *)
LEMMA AgreeableFits ==
  ASSUME NEW flags \in KernelCaps, NEW readahead \in KernelReadaheads,
         Agreeable(flags, readahead)
  PROVE  ReplyFits(Offer(flags, readahead), InitReply(config))
  <1>1. /\ config.capabilities = flags
        /\ config.max_readahead <= readahead
        /\ config.max_write \in 1 .. MAX_WRITE_SIZE
        /\ config.time_gran \in Tens
    BY DEF Agreeable
  <1> QED BY <1>1, ReplyValues DEF ReplyFits, InitReply, Offer

(* Every call of init keeps it so.                                         *)
LEMMA CallAgreeable ==
  ASSUME NEW CONSTANT flags \in KernelCaps, NEW CONSTANT readahead \in KernelReadaheads,
         Agreeable(flags, readahead), InitCalls
  PROVE  Agreeable(flags, readahead)'
  <1> USE DEF Agreeable
  <1>1. ASSUME NEW value \in InitTimes, set_time_granularity(value)
        PROVE  Agreeable(flags, readahead)'
    BY <1>1, ValuesAssumption DEF set_time_granularity
  <1>2. ASSUME NEW value \in InitSizes, set_max_write(value)
        PROVE  Agreeable(flags, readahead)'
    BY <1>2, ValuesAssumption, SizesAre DEF set_max_write
  <1>3. ASSUME NEW value \in InitSizes, set_max_readahead(value)
        PROVE  Agreeable(flags, readahead)'
    BY <1>3, ValuesAssumption DEF set_max_readahead
  <1>4. ASSUME NEW caps \in InitCaps, add_capabilities(caps)
        PROVE  Agreeable(flags, readahead)'
    BY <1>4, ValuesAssumption DEF add_capabilities
  <1>5. ASSUME NEW value \in InitCounts, set_max_background(value)
        PROVE  Agreeable(flags, readahead)'
    BY <1>5, ValuesAssumption DEF set_max_background
  <1>6. ASSUME NEW value \in InitCounts, set_congestion_threshold(value)
        PROVE  Agreeable(flags, readahead)'
    BY <1>6, ValuesAssumption DEF set_congestion_threshold
  <1> QED BY <1>1, <1>2, <1>3, <1>4, <1>5, <1>6 DEF InitCalls

(* KernelConfig::new starts with it.                                       *)
LEMMA NewAgreeable ==
  ASSUME NEW CONSTANT flags \in KernelCaps, NEW CONSTANT readahead \in KernelReadaheads,
         config = new(flags, readahead)
  PROVE  Agreeable(flags, readahead)
  <1>1. INIT_FLAGS \subseteq Nat /\ FUSE_MAX_PAGES \in Nat
    BY DEF INIT_FLAGS, FUSE_ASYNC_READ, FUSE_BIG_WRITES, FUSE_MAX_PAGES
  <1>2. flags \in SUBSET Nat
    BY ValuesAssumption
  <1>3. default_init_flags(flags) \in SUBSET Nat
    BY <1>1, <1>2 DEF default_init_flags
  <1>4. readahead \in Nat
    BY SizesAre
  <1> QED BY <1>2, <1>3, <1>4, SizesAre, ValuesAssumption DEF Agreeable, new

(* However a filesystem's init changes the configuration, by any number of *)
(* set_ and add_ calls in any order, the INIT reply made from it at any    *)
(* time stays within what the kernel offered and what the session's buffer *)
(* holds, and its pages are enough for the largest request (KernelConfig   *)
(* and Init::reply of fuser).                                              *)
THEOREM NegotiationFits ==
  ASSUME NEW CONSTANT flags \in KernelCaps, NEW CONSTANT readahead \in KernelReadaheads
  PROVE  config = new(flags, readahead) /\ [][InitCalls]_config
           => []ReplyFits(Offer(flags, readahead), InitReply(config))
  <1>1. config = new(flags, readahead) => Agreeable(flags, readahead)
    BY NewAgreeable
  <1>2. Agreeable(flags, readahead) /\ [InitCalls]_config => Agreeable(flags, readahead)'
    <2>1. Agreeable(flags, readahead) /\ InitCalls => Agreeable(flags, readahead)'
      BY CallAgreeable
    <2>2. Agreeable(flags, readahead) /\ UNCHANGED config => Agreeable(flags, readahead)'
      BY DEF Agreeable
    <2> QED BY <2>1, <2>2
  <1>3. Agreeable(flags, readahead) =>
          ReplyFits(Offer(flags, readahead), InitReply(config))
    BY AgreeableFits
  <1> QED BY <1>1, <1>2, <1>3, PTL

=============================================================================
