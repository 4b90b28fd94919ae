---------------------------- MODULE DevicesProofs ----------------------------
(***************************************************************************)
(* Proofs about Devices, for every number of callers, every machine, every *)
(* job and every limit of the device.  The argument: a callback is asked   *)
(* for once, after the copy it waits for was queued (CopyQueued), is taken *)
(* by one poll only, which runs it before it returns (CallbackOnce), and   *)
(* is never dropped (CallbackKept).  A caller polls for at least its own   *)
(* copy, so its callback was taken, by its poll or by another's, when it   *)
(* starts to wait.                                                         *)
(*                                                                         *)
(* That every backend answers as naive.rs takes three things more: what a  *)
(* caller reads back is what its own dispatch computed (ResultsInv); what  *)
(* a dispatch computes is what the reference writes, every element by one  *)
(* thread and none by two (DeviceComputes); and so are the vector loops of *)
(* the CPU's backends, whole vectors first and then the rest (KernelIs).   *)
(***************************************************************************)
EXTENDS Devices, GraphSortProofs

Types ==
    /\ gpu \in {"none", "open", "absent", "lost"}
    /\ pc \in [Callers -> Stages]
    /\ mapping \in [Callers -> {"no", "requested", "taken"}]
    /\ queue \in Seq(Callers \X {"compute", "copy"})
    /\ done \in 0 .. Len(queue)
    /\ until \in [Callers -> 0 .. Len(queue)]
    /\ held \in [Callers -> SUBSET Callers]
    /\ channel \in [Callers -> Seq({"Ok", "Err"})]

\* A poll's hold on a callback is exclusive, and ends when the callback sends.
CallbackOnce ==
    /\ \A c \in Callers : held[c] # {} => pc[c] = "firing"
    /\ \A c \in Callers : \A d \in held[c] :
          /\ mapping[d] = "taken" /\ channel[d] = <<>>
          /\ \A e \in Callers : d \in held[e] => e = c
    /\ \A c \in Callers : channel[c] # <<>> => mapping[c] = "taken" /\ Len(channel[c]) = 1

\* What was taken is held by a poll, or has been sent.
CallbackKept ==
    \A c \in Callers : mapping[c] = "taken" =>
        channel[c] # <<>> \/ \E d \in Callers : c \in held[d]

\* Where a caller is with its mapping, and with the copy it is for.
CopyQueued ==
    \A c \in Callers :
        /\ pc[c] \in {"ready", "submitted", "copying"} => mapping[c] = "no"
        /\ pc[c] \in {"mapping", "polling"} => mapping[c] # "no"
        /\ pc[c] \in {"firing", "receiving"} => mapping[c] = "taken"
        /\ pc[c] \in {"copying", "mapping"} =>
              \E j \in 1 .. Len(queue) : queue[j] = <<c, "copy">>
        /\ pc[c] = "polling" => \E j \in 1 .. until[c] : queue[j] = <<c, "copy">>

\* An error is sent by a lost device only, and only its callers panic.
ErrorsJustified ==
    \A c \in Callers :
        /\ channel[c] # <<>> => Head(channel[c]) = "Ok" \/ gpu = "lost"
        /\ pc[c] \notin {"ready", "answered"} => call[c].backend = "WebGpu"
        /\ pc[c] = "panicked" => gpu = "lost" \/ Unbindable(Job(c)) \/ Overlong(Job(c)) \/ Oversized(Job(c))

DevicesInv == Types /\ CallbackOnce /\ CallbackKept /\ CopyQueued /\ ErrorsJustified

\* A caller that waits on its channel is never waiting for nothing: the message
\* is there, or another caller's poll holds the callback and has yet to run it.
CallbackServed ==
    \A c \in Callers : pc[c] = "receiving" =>
        \/ channel[c] # <<>>
        \/ \E d \in Callers \ {c} : pc[d] = "firing" /\ c \in held[d]

-----------------------------------------------------------------------------
(* Steps that only move one caller, and disturb nothing the callbacks use *)

Settled == <<call, gpu, queue, done, mapping, until, held, channel>>

\* Such a step keeps the invariant when the caller holds no callback, does not
\* wait on its mapping afterwards, and has a reason to panic if it does.
LEMMA MoveAway ==
    ASSUME DevicesInv, UNCHANGED Settled, NEW c \in Callers, NEW to \in {"answered", "panicked"},
           held[c] = {}, Move(c, to),
           to = "panicked" =>
              /\ call[c].backend = "WebGpu"
              /\ gpu = "lost" \/ Unbindable(Job(c)) \/ Overlong(Job(c)) \/ Oversized(Job(c))
    PROVE  DevicesInv'
<1> USE DEF DevicesInv, Settled, Move
<1>1. Types'
    BY DEF Types, Stages
<1>2. CallbackOnce'
    BY DEF Types, CallbackOnce
<1>3. CallbackKept'
    BY DEF CallbackKept
<1>4. CopyQueued'
    BY DEF Types, CopyQueued
<1>5. ErrorsJustified'
    BY DEF Types, ErrorsJustified, Job
<1>6. QED
    BY <1>1, <1>2, <1>3, <1>4, <1>5

-----------------------------------------------------------------------------
(* One lemma per action, in the order of a call *)

LEMMA InitEstablishes == Init => DevicesInv
<1> SUFFICES ASSUME Init PROVE DevicesInv
    OBVIOUS
<1> USE DEF Init, GpuInit
<1>1. Types
    BY DEF Types, Stages
<1>2. CallbackOnce /\ CallbackKept /\ CopyQueued
    BY DEF CallbackOnce, CallbackKept, CopyQueued
<1>3. ErrorsJustified
    BY DEF ErrorsJustified
<1>4. QED
    BY <1>1, <1>2, <1>3 DEF DevicesInv

\* What a call answers at once, on the CPU or because it is refused or empty.
LEMMA AnswerKeeps ==
    ASSUME DevicesInv, NEW c \in Callers, CpuCall(c) \/ Refuse(c) \/ Skip(c)
    PROVE  DevicesInv'
<1>1. Move(c, "answered") /\ UNCHANGED Settled /\ pc[c] = "ready"
    BY DEF CpuCall, Refuse, Skip, Ask, Answered, Settled
<1>2. held[c] = {}
    BY <1>1 DEF DevicesInv, CallbackOnce
<1>3. QED
    BY <1>1, <1>2, MoveAway

\* What was queued stays where it is when something is submitted.
LEMMA QueuedStays ==
    ASSUME Types, NEW what \in Callers \X {"compute", "copy"}, queue' = Append(queue, what)
    PROVE  /\ Len(queue) \in Nat /\ Len(queue') = Len(queue) + 1
           /\ queue'[Len(queue) + 1] = what
           /\ \A j \in 1 .. Len(queue) : j \in 1 .. Len(queue') /\ queue'[j] = queue[j]
    BY DEF Types

\* Nor does a copy that was queued before a caller's poll leave its place.
LEMMA CopiesStay ==
    ASSUME Types, NEW what \in Callers \X {"compute", "copy"}, queue' = Append(queue, what),
           UNCHANGED until, NEW d \in Callers
    PROVE  /\ (\E j \in 1 .. Len(queue) : queue[j] = <<d, "copy">>) =>
                  \E j \in 1 .. Len(queue') : queue'[j] = <<d, "copy">>
           /\ (\E j \in 1 .. until[d] : queue[j] = <<d, "copy">>) =>
                  \E j \in 1 .. until'[d] : queue'[j] = <<d, "copy">>
<1>1. \A j \in 1 .. Len(queue) : j \in 1 .. Len(queue') /\ queue'[j] = queue[j]
    BY QueuedStays
<1>2. until[d] \in Nat /\ until[d] <= Len(queue) /\ Len(queue) \in Nat
    BY DEF Types
<1>3. \A j \in 1 .. until[d] : queue'[j] = queue[j]
    BY <1>1, <1>2
<1>4. QED
    BY <1>1, <1>3

LEMMA SubmitKeeps ==
    ASSUME DevicesInv, NEW c \in Callers, Submit(c)
    PROVE  DevicesInv'
<1>1. pc[c] = "ready" /\ call[c].backend = "WebGpu"
    BY DEF Submit, Ask
<1>2. CASE Unbindable(Job(c)) \/ Overlong(Job(c)) \/ Oversized(Job(c))
  <2>1. Move(c, "panicked") /\ UNCHANGED Settled
      BY <1>2 DEF Submit, Settled
  <2>2. held[c] = {}
      BY <1>1 DEF DevicesInv, CallbackOnce
  <2>3. QED
      BY <1>1, <1>2, <2>1, <2>2, MoveAway
<1>3. CASE ~(Unbindable(Job(c)) \/ Overlong(Job(c)) \/ Oversized(Job(c)))
  <2>1. /\ pc' = [pc EXCEPT ![c] = "submitted"]
        /\ queue' = Append(queue, <<c, "compute">>)
        /\ UNCHANGED <<call, gpu, done, mapping, until, held, channel>>
      BY <1>3 DEF Submit, Move
  <2>2. Types'
      BY <2>1 DEF DevicesInv, Types, Stages
  <2>3. CallbackOnce' /\ CallbackKept'
      BY <1>1, <2>1 DEF DevicesInv, Types, CallbackOnce, CallbackKept
  <2>4. CopyQueued'
    <3>1. \A d \in Callers : pc'[d] = IF d = c THEN "submitted" ELSE pc[d]
        BY <2>1 DEF DevicesInv, Types
    <3>2. \A d \in Callers :
            /\ pc'[d] \in {"copying", "mapping"} =>
                  \E j \in 1 .. Len(queue') : queue'[j] = <<d, "copy">>
            /\ pc'[d] = "polling" => \E j \in 1 .. until'[d] : queue'[j] = <<d, "copy">>
        BY <2>1, <3>1, CopiesStay DEF DevicesInv, Types, CopyQueued
    <3>3. QED
        BY <1>1, <2>1, <3>1, <3>2 DEF DevicesInv, Types, CopyQueued
  <2>5. ErrorsJustified'
      BY <1>1, <2>1 DEF DevicesInv, Types, ErrorsJustified, Job
  <2>6. QED
      BY <2>2, <2>3, <2>4, <2>5 DEF DevicesInv
<1>4. QED
    BY <1>2, <1>3

LEMMA SubmitCopyKeeps ==
    ASSUME DevicesInv, NEW c \in Callers, SubmitCopy(c)
    PROVE  DevicesInv'
<1>1. /\ pc[c] = "submitted" /\ pc' = [pc EXCEPT ![c] = "copying"]
      /\ queue' = Append(queue, <<c, "copy">>)
      /\ UNCHANGED <<call, gpu, done, mapping, until, held, channel>>
    BY DEF SubmitCopy, Move
<1>2. Types'
    BY <1>1 DEF DevicesInv, Types, Stages
<1>3. CallbackOnce' /\ CallbackKept'
    BY <1>1 DEF DevicesInv, Types, CallbackOnce, CallbackKept
<1>4. CopyQueued'
  <2>1. \A d \in Callers : pc'[d] = IF d = c THEN "copying" ELSE pc[d]
      BY <1>1 DEF DevicesInv, Types
  <2>2. \E j \in 1 .. Len(queue') : queue'[j] = <<c, "copy">>
      BY <1>1, QueuedStays DEF DevicesInv
  <2>3. \A d \in Callers :
          /\ pc'[d] \in {"copying", "mapping"} =>
                \E j \in 1 .. Len(queue') : queue'[j] = <<d, "copy">>
          /\ pc'[d] = "polling" => \E j \in 1 .. until'[d] : queue'[j] = <<d, "copy">>
      BY <1>1, <2>1, <2>2, CopiesStay DEF DevicesInv, Types, CopyQueued
  <2>4. QED
      BY <1>1, <2>1, <2>3 DEF DevicesInv, Types, CopyQueued
<1>5. ErrorsJustified'
    BY <1>1 DEF DevicesInv, Types, ErrorsJustified, Job
<1>6. QED
    BY <1>2, <1>3, <1>4, <1>5 DEF DevicesInv

LEMMA MapAsyncKeeps ==
    ASSUME DevicesInv, NEW c \in Callers, MapAsync(c)
    PROVE  DevicesInv'
<1> USE DEF DevicesInv, MapAsync, Move
<1>1. Types'
    BY DEF Types, Stages
<1>2. CallbackOnce' /\ CallbackKept'
  <2>1. mapping[c] = "no" /\ pc[c] = "copying"
    BY DEF CopyQueued
  <2>2. /\ mapping'[c] = "requested" /\ pc'[c] = "mapping"
        /\ \A d \in Callers : d # c => mapping'[d] = mapping[d] /\ pc'[d] = pc[d]
        /\ held' = held /\ channel' = channel
    BY DEF Types
  <2>3. CallbackOnce'
    <3>1. /\ \A d \in Callers : held[d] # {} => d # c
          /\ \A d \in Callers : mapping[d] = "taken" => d # c
      BY <2>1 DEF CallbackOnce
    <3>2. \A d \in Callers : held'[d] # {} => pc'[d] = "firing"
      BY <2>2, <3>1, Zenon DEF CallbackOnce
    <3>3. \A d \in Callers : mapping[d] = "taken" => mapping'[d] = "taken"
      BY <2>2, <3>1, Zenon
    <3>4. held \in [Callers -> SUBSET Callers]
      BY Zenon DEF Types
    <3>5. \A d \in Callers : \A e \in held'[d] :
            /\ mapping'[e] = "taken" /\ channel'[e] = <<>>
            /\ \A f \in Callers : e \in held'[f] => f = d
      BY <2>2, <3>3, <3>4 DEF CallbackOnce
    <3>6. \A d \in Callers : channel'[d] # <<>> => mapping'[d] = "taken" /\ Len(channel'[d]) = 1
      BY <2>2, <3>3 DEF CallbackOnce
    <3>7. QED
      BY <3>2, <3>5, <3>6, Zenon DEF CallbackOnce
  <2>4. CallbackKept'
    <3>1. \A d \in Callers : mapping'[d] = "taken" => mapping[d] = "taken"
      <4>1. "requested" # "taken"
        OBVIOUS
      <4>2. QED
        BY <2>2, <4>1, Zenon
    <3>2. QED
      BY <2>2, <3>1, Zenon DEF CallbackKept
  <2>5. QED
    BY <2>3, <2>4
<1>3. CopyQueued'
    BY DEF Types, CopyQueued
<1>4. ErrorsJustified'
    BY DEF Types, ErrorsJustified, Job
<1>5. QED
    BY <1>1, <1>2, <1>3, <1>4

\* The poll waits for everything submitted, so for the caller's own copy too.
LEMMA PollKeeps ==
    ASSUME DevicesInv, NEW c \in Callers, Poll(c)
    PROVE  DevicesInv'
<1> USE DEF DevicesInv, Poll, Move
<1>1. Types'
    BY DEF Types, Stages
<1>2. CallbackOnce' /\ CallbackKept'
    BY DEF Types, CallbackOnce, CallbackKept
<1>3. CopyQueued'
    BY DEF Types, CopyQueued
<1>4. ErrorsJustified'
    BY DEF Types, ErrorsJustified, Job
<1>5. QED
    BY <1>1, <1>2, <1>3, <1>4

\* A poll that ends finds its caller's callback due, unless another poll took it.
LEMMA OwnCallbackDue ==
    ASSUME DevicesInv, NEW c \in Callers, Harvest(c)
    PROVE  c \in Due \/ mapping[c] = "taken"
<1>1. pc[c] = "polling" /\ (done >= until[c] \/ gpu = "lost")
    BY DEF Harvest
<1>2. mapping[c] \in {"requested", "taken"}
    BY <1>1 DEF DevicesInv, Types, CopyQueued
<1>3. PICK j \in 1 .. until[c] : queue[j] = <<c, "copy">>
    BY <1>1 DEF DevicesInv, CopyQueued
<1>4. Copied(c) \/ gpu = "lost"
    BY <1>1, <1>3 DEF DevicesInv, Types, Copied
<1>5. QED
    BY <1>2, <1>4 DEF Due

LEMMA HarvestKeeps ==
    ASSUME DevicesInv, NEW c \in Callers, Harvest(c)
    PROVE  DevicesInv'
<1>1. /\ pc[c] = "polling"
      /\ held' = [held EXCEPT ![c] = Due]
      /\ mapping' = [d \in Callers |-> IF d \in Due THEN "taken" ELSE mapping[d]]
      /\ pc' = [pc EXCEPT ![c] = "firing"]
      /\ UNCHANGED <<call, gpu, queue, done, until, channel>>
    BY DEF Harvest, Move
<1>2. Due \subseteq Callers /\ \A d \in Due : mapping[d] = "requested"
    BY DEF Due
<1>3. held[c] = {}
    BY <1>1 DEF DevicesInv, CallbackOnce
<1>4. \A d \in Due : channel[d] = <<>> /\ \A e \in Callers : d \notin held[e]
    BY <1>2 DEF DevicesInv, CallbackOnce
<1>5. Types'
    BY <1>1, <1>2 DEF DevicesInv, Types, Stages
<1>6. CallbackOnce'
  <2>1. \A e \in Callers : held'[e] = IF e = c THEN Due ELSE held[e]
      BY <1>1 DEF DevicesInv, Types
  <2>2. \A e \in Callers : held'[e] # {} => pc'[e] = "firing"
      BY <1>1, <2>1 DEF DevicesInv, Types, CallbackOnce
  <2>3. \A e \in Callers : \A d \in held'[e] : d \in Callers
      BY <1>2, <2>1 DEF DevicesInv, Types
  <2>4. \A e \in Callers : \A d \in held'[e] : mapping'[d] = "taken" /\ channel'[d] = <<>>
      BY <1>1, <1>4, <2>1, <2>3 DEF DevicesInv, CallbackOnce
  <2>5. \A e \in Callers : \A d \in held'[e] : \A f \in Callers : d \in held'[f] => f = e
      BY <1>4, <2>1 DEF DevicesInv, CallbackOnce
  <2>6. \A d \in Callers : channel'[d] # <<>> => mapping'[d] = "taken" /\ Len(channel'[d]) = 1
      BY <1>1 DEF DevicesInv, CallbackOnce
  <2>7. QED
      BY <2>2, <2>4, <2>5, <2>6 DEF CallbackOnce
<1>7. CallbackKept'
    BY <1>1, <1>3 DEF DevicesInv, Types, CallbackKept
<1>8. CopyQueued'
    BY <1>1, <1>2, OwnCallbackDue DEF DevicesInv, Types, CopyQueued
<1>9. ErrorsJustified'
    BY <1>1 DEF DevicesInv, Types, ErrorsJustified, Job
<1>10. QED
    BY <1>5, <1>6, <1>7, <1>8, <1>9 DEF DevicesInv

LEMMA FireKeeps ==
    ASSUME DevicesInv, NEW c \in Callers, Fire(c)
    PROVE  DevicesInv'
<1>1. PICK d \in held[c], mapped \in {"Ok", "Err"} :
         /\ mapped = "Err" => gpu = "lost"
         /\ channel' = [channel EXCEPT ![d] = Append(@, mapped)]
         /\ held' = [held EXCEPT ![c] = @ \ {d}]
    BY DEF Fire
<1>2. pc[c] = "firing" /\ UNCHANGED <<call, gpu, pc, queue, done, mapping, until>>
    BY DEF Fire
<1>3. d \in Callers /\ channel[d] = <<>> /\ mapping[d] = "taken"
    BY DEF DevicesInv, Types, CallbackOnce
<1>4. channel' = [channel EXCEPT ![d] = <<mapped>>]
    BY <1>1, <1>3 DEF DevicesInv, Types
<1>5. Types'
    BY <1>1, <1>2, <1>4 DEF DevicesInv, Types
<1>6. CallbackOnce'
    BY <1>1, <1>2, <1>3, <1>4 DEF DevicesInv, Types, CallbackOnce
<1>7. CallbackKept'
    BY <1>1, <1>2, <1>3, <1>4 DEF DevicesInv, Types, CallbackOnce, CallbackKept
<1>8. CopyQueued'
    BY <1>2 DEF DevicesInv, CopyQueued
<1>9. ErrorsJustified'
    BY <1>1, <1>2, <1>3, <1>4 DEF DevicesInv, Types, ErrorsJustified, Job
<1>10. QED
    BY <1>5, <1>6, <1>7, <1>8, <1>9 DEF DevicesInv

LEMMA PollReturnsKeeps ==
    ASSUME DevicesInv, NEW c \in Callers, PollReturns(c)
    PROVE  DevicesInv'
<1> USE DEF DevicesInv, PollReturns, Move
<1>1. Types'
    BY DEF Types, Stages
<1>2. CallbackOnce' /\ CallbackKept'
    BY DEF Types, CallbackOnce, CallbackKept
<1>3. CopyQueued'
    BY DEF Types, CopyQueued
<1>4. ErrorsJustified'
    BY DEF Types, ErrorsJustified, Job
<1>5. QED
    BY <1>1, <1>2, <1>3, <1>4

LEMMA ReceiveKeeps ==
    ASSUME DevicesInv, NEW c \in Callers, Receive(c)
    PROVE  DevicesInv'
<1>1. pc[c] = "receiving" /\ channel[c] # <<>> /\ UNCHANGED Settled
    BY DEF Receive, Settled
<1>2. held[c] = {}
    BY <1>1 DEF DevicesInv, CallbackOnce
<1>3. CASE Head(channel[c]) = "Ok"
    BY <1>1, <1>2, <1>3, MoveAway DEF Receive, Answered
<1>4. CASE Head(channel[c]) # "Ok"
  <2>1. Move(c, "panicked")
      BY <1>4 DEF Receive
  <2>2. gpu = "lost" /\ call[c].backend = "WebGpu"
      BY <1>1, <1>4 DEF DevicesInv, ErrorsJustified
  <2>3. QED
      BY <1>1, <1>2, <2>1, <2>2, MoveAway
<1>5. QED
    BY <1>3, <1>4

LEMMA DeviceKeeps ==
    ASSUME DevicesInv, Acquire \/ Execute \/ Lose
    PROVE  DevicesInv'
<1>1. /\ UNCHANGED <<call, pc, queue, mapping, until, held, channel>>
      /\ gpu' \in {"none", "open", "absent", "lost"}
      /\ gpu = "lost" => gpu' = "lost"
      /\ done' \in 0 .. Len(queue)
    BY DEF DevicesInv, Types, Acquire, Execute, Lose
<1>2. Types'
    BY <1>1 DEF DevicesInv, Types
<1>3. CallbackOnce' /\ CallbackKept'
    BY <1>1 DEF DevicesInv, CallbackOnce, CallbackKept
<1>4. CopyQueued'
    BY <1>1 DEF DevicesInv, CopyQueued
<1>5. ErrorsJustified'
    BY <1>1 DEF DevicesInv, ErrorsJustified, Job
<1>6. QED
    BY <1>2, <1>3, <1>4, <1>5 DEF DevicesInv

-----------------------------------------------------------------------------
(* Theorems *)

LEMMA NextKeeps == DevicesInv /\ [Next]_vars => DevicesInv'
<1> SUFFICES ASSUME DevicesInv, [Next]_vars PROVE DevicesInv'
    OBVIOUS
<1>1. CASE Device
    BY <1>1, DeviceKeeps DEF Device
<1>2. ASSUME NEW c \in Callers, CpuCall(c) \/ GpuStep(c) PROVE DevicesInv'
    BY <1>2, AnswerKeeps, SubmitKeeps, SubmitCopyKeeps, MapAsyncKeeps, PollKeeps, HarvestKeeps,
       FireKeeps, PollReturnsKeeps, ReceiveKeeps DEF GpuStep, CallStep
<1>3. CASE UNCHANGED vars
  <2>1. UNCHANGED <<call, gpu, pc, queue, done, mapping, until, held, channel>>
      BY <1>3 DEF vars, gpuVars
  <2>2. Types' /\ CallbackOnce' /\ CallbackKept'
      BY <2>1 DEF DevicesInv, Types, CallbackOnce, CallbackKept
  <2>3. CopyQueued'
      BY <2>1 DEF DevicesInv, CopyQueued
  <2>4. ErrorsJustified'
      BY <2>1 DEF DevicesInv, ErrorsJustified, Job
  <2>5. QED
      BY <2>2, <2>3, <2>4 DEF DevicesInv
<1>4. QED
    BY <1>1, <1>2, <1>3 DEF Next

\* The invariant of the callbacks holds however many callers share the device,
\* whatever is submitted and whenever the device is lost: what webgpu.rs relies
\* on when read_back polls, drops the result and waits.
THEOREM DevicesSafe == Spec => []DevicesInv
<1>1. QED
    BY InitEstablishes, NextKeeps, PTL DEF Spec

\* A call is always in one of the stages of webgpu.rs, and a callback is held by
\* one poll at most and sends once.
THEOREM DevicesTypes == Spec => []TypeOK
<1>1. DevicesInv => TypeOK
  <2> SUFFICES ASSUME DevicesInv PROVE TypeOK
      OBVIOUS
  <2>1. \A c, d \in Callers : c # d => held[c] \cap held[d] = {}
      BY DEF DevicesInv, CallbackOnce
  <2>2. \A c \in Callers : Len(channel[c]) <= 1 /\ (channel[c] # <<>> => mapping[c] = "taken")
    <3>1. SUFFICES ASSUME NEW c \in Callers
                   PROVE  /\ Len(channel[c]) <= 1
                          /\ channel[c] # <<>> => mapping[c] = "taken"
        OBVIOUS
    <3>2. CASE channel[c] = <<>>
        BY <3>2
    <3>3. CASE channel[c] # <<>>
      <4>1. mapping[c] = "taken" /\ Len(channel[c]) = 1
          BY <3>3 DEF DevicesInv, CallbackOnce
      <4>2. QED
          BY <4>1
    <3>4. QED
        BY <3>2, <3>3
  <2>3. QED
      BY <2>1, <2>2 DEF DevicesInv, Types, TypeOK
<1>2. QED
    BY <1>1, DevicesSafe, PTL

\* The expect of read_back and the device's error handler bring a call down only
\* when the device is lost, an operand is empty, or a buffer, a binding or the grid
\* is beyond its limit.
THEOREM PanicsJustified == Spec => []PanicsOnlyAtLimits
<1>1. DevicesInv => PanicsOnlyAtLimits
    BY DEF DevicesInv, ErrorsJustified, PanicsOnlyAtLimits
<1>2. QED
    BY <1>1, DevicesSafe, PTL

\* No call blocks on a callback that nobody will run: read_back's recv finds its
\* message, or another caller's poll is about to send it.
THEOREM NoLostCallback == Spec => []CallbackServed
<1>1. DevicesInv => CallbackServed
  <2> SUFFICES ASSUME DevicesInv, NEW c \in Callers, pc[c] = "receiving", channel[c] = <<>>
               PROVE  \E d \in Callers \ {c} : pc[d] = "firing" /\ c \in held[d]
      BY DEF CallbackServed
  <2>1. PICK d \in Callers : c \in held[d]
      BY DEF DevicesInv, CopyQueued, CallbackKept
  <2>2. pc[d] = "firing"
      BY <2>1 DEF DevicesInv, CallbackOnce
  <2>3. QED
      BY <2>1, <2>2
<1>2. QED
    BY <1>1, DevicesSafe, PTL

-----------------------------------------------------------------------------
(* Selection *)

\* The list of available_backends is a concatenation of lists of one or none:
\* its last entry is the last that was pushed.
LEMMA LastPushed ==
    ASSUME NEW S, NEW s \in Seq(S), s # <<>>, NEW b \in S
    PROVE  /\ s \o <<b>> \in Seq(S) /\ s \o <<b>> # <<>> /\ Last(s \o <<b>>) = b
           /\ s \o <<>> = s
<1>1. Len(s) \in Nat /\ <<b>> \in Seq(S) /\ Len(s \o <<b>>) = Len(s) + 1
    OBVIOUS
<1>2. (s \o <<b>>)[Len(s) + 1] = b
    BY <1>1
<1>3. s \o <<>> = s
    OBVIOUS
<1>4. QED
    BY <1>1, <1>2, <1>3 DEF Last

\* On every machine that can start the build, select_backend picks the last,
\* and so the best, of available_backends, and a backend whose instructions the
\* machine has.
THEOREM SelectsBest == Spec => []SelectsTheBest
<1>1. Init => machine \in Machines
    BY DEF Init
<1>2. machine \in Machines /\ [Next]_vars => (machine \in Machines)'
  <2>1. [Next]_vars => UNCHANGED machine
      BY DEF Next, Device, CpuCall, GpuStep, vars
  <2>2. QED
      BY <2>1
<1>3. machine \in Machines => SelectsTheBest
  <2> SUFFICES ASSUME NEW m \in Machines
               PROVE  /\ SelectBackend(m) = Last(AvailableBackends(m))
                      /\ SelectBackend(m) # "Naive" => Feature[SelectBackend(m)] \in m.cpu
      BY Zenon DEF SelectsTheBest
  <2> DEFINE F(b)    == Found(m, b)
             push(b) == IF F(b) THEN <<b>> ELSE <<>>
             s0 == <<"Naive">>
             s1 == s0 \o push("Avx2")
             s2 == s1 \o push("Avx512")
             s3 == s2 \o push("Neon")
             s4 == s3 \o push("WasmSimd")
  <2>1. AvailableBackends(m) = s4
      BY DEF AvailableBackends
  <2>2. SelectBackend(m) = IF F("Avx512") THEN "Avx512" ELSE IF F("Avx2") THEN "Avx2"
                           ELSE IF F("Neon") THEN "Neon" ELSE IF F("WasmSimd") THEN "WasmSimd"
                           ELSE "Naive"
      BY DEF SelectBackend, Detect
  <2>3. \* Only x86 has two of them.
        F("Avx512") \/ F("Avx2") => ~F("Neon") /\ ~F("WasmSimd")
      BY DEF Found, AnyBackend
  <2>4. F("Neon") => ~F("WasmSimd")
      BY DEF Found, AnyBackend
  <2>5. \A b \in {"Avx2", "Avx512", "Neon", "WasmSimd"} : F(b) => Feature[b] \in m.cpu
      BY MachinesAssumption DEF Found, IsAvailable, Feature
  <2>5a. PICK B : B = {"Naive", "Avx2", "Avx512", "Neon", "WasmSimd"}
      OBVIOUS
  <2>5b. "Naive" \in B /\ "Avx2" \in B /\ "Avx512" \in B /\ "Neon" \in B /\ "WasmSimd" \in B
      BY <2>5a
  <2> HIDE DEF F
  <2>6. s0 \in Seq(B) /\ s0 # <<>> /\ Last(s0) = "Naive"
      BY <2>5b DEF Last
  <2> HIDE DEF s0
  <2>7. s1 \in Seq(B) /\ s1 # <<>> /\ Last(s1) = IF F("Avx2") THEN "Avx2" ELSE "Naive"
      BY <2>5b, <2>6, LastPushed
  <2> HIDE DEF s1
  <2>8. s2 \in Seq(B) /\ s2 # <<>> /\ Last(s2) = IF F("Avx512") THEN "Avx512" ELSE Last(s1)
      BY <2>5b, <2>7, LastPushed
  <2> HIDE DEF s2
  <2>9. s3 \in Seq(B) /\ s3 # <<>> /\ Last(s3) = IF F("Neon") THEN "Neon" ELSE Last(s2)
      BY <2>5b, <2>8, LastPushed
  <2> HIDE DEF s3
  <2>10. Last(s4) = IF F("WasmSimd") THEN "WasmSimd" ELSE Last(s3)
      BY <2>5b, <2>9, LastPushed
  <2> HIDE DEF s4
  <2>11. Last(s4) = SelectBackend(m)
      BY <2>2, <2>3, <2>4, <2>7, <2>8, <2>9, <2>10
  <2>12. QED
      BY <2>1, <2>2, <2>5, <2>11
<1>4. QED
    BY <1>1, <1>2, <1>3, PTL DEF Spec

-----------------------------------------------------------------------------
(* Whose results a caller reads *)

\* What a dispatch of the caller's job leaves in its output buffer.
Results(c) == {Computed(Job(c), nanMax) : nanMax \in {"nan", "zero"}}

\* The machine and the calls are the ones the program started with.
CallsFixed == machine \in Machines /\ call \in Calls[machine]

\* A caller goes on with a job that was not refused and is not empty.
Admitted ==
    \A c \in Callers : pc[c] \notin {"ready", "answered"} =>
        Naive(Job(c)).err = None /\ Job(c).len > 0

\* A copy is queued behind the dispatch whose output it copies.
DispatchFirst ==
    /\ \A c \in Callers : pc[c] = "submitted" =>
          \E k \in 1 .. Len(queue) : queue[k] = <<c, "compute">>
    /\ \A j \in 1 .. Len(queue) : queue[j][2] = "copy" =>
          \E k \in 1 .. j - 1 : queue[k] = <<queue[j][1], "compute">>

\* What ran left its caller's own results in the caller's buffers.
BuffersOwn ==
    /\ DOMAIN outBuf = Callers /\ DOMAIN staging = Callers
    /\ \A j \in 1 .. done :
          IF queue[j][2] = "compute" THEN outBuf[queue[j][1]] \in Results(queue[j][1])
          ELSE staging[queue[j][1]] \in Results(queue[j][1])

\* The callback says Ok of a copy that ran.
OkAfterCopy == \A c \in Callers : channel[c] # <<>> /\ Head(channel[c]) = "Ok" => Copied(c)

\* An answer is of one of four kinds.
AnswersOf(c) ==
    \/ call[c].backend \in AnyBackend(machine)
         /\ answer[c] = Dispatched(machine, call[c].backend, Job(c))
    \/ call[c].backend = "WebGpu"
         /\ \/ Naive(Job(c)).err # None /\ answer[c] = Fails(Naive(Job(c)).err)
            \/ Naive(Job(c)).err = None /\ Job(c).len = 0 /\ answer[c] = Writes(<<>>)
            \/ /\ Naive(Job(c)).err = None /\ Job(c).len > 0
               /\ \E r \in Results(c) : answer[c] = Writes(r)

AnswersJustified ==
    DOMAIN answer = Callers /\ \A c \in Callers : pc[c] = "answered" => AnswersOf(c)

ResultsInv ==
    /\ CallsFixed /\ Admitted /\ DispatchFirst /\ BuffersOwn /\ OkAfterCopy /\ AnswersJustified

\* Before the first call there is nothing to own.
LEMMA ResultsInit == Init => ResultsInv
<1> SUFFICES ASSUME Init PROVE ResultsInv
    OBVIOUS
<1> USE DEF Init, GpuInit
<1>1. CallsFixed /\ Admitted /\ DispatchFirst
    BY DEF CallsFixed, Admitted, DispatchFirst
<1>2. BuffersOwn /\ OkAfterCopy /\ AnswersJustified
    BY DEF BuffersOwn, OkAfterCopy, AnswersJustified
<1>3. QED
    BY <1>1, <1>2 DEF ResultsInv

\* What a step that leaves the queue and the buffers alone keeps.
LEMMA ResultsStay ==
    ASSUME ResultsInv, UNCHANGED <<call, machine, queue, done, outBuf, staging>>
    PROVE  /\ CallsFixed' /\ BuffersOwn'
           /\ \A c \in Callers : Copied(c)' = Copied(c)
           /\ \A c \in Callers : Job(c)' = Job(c) /\ Results(c)' = Results(c)
           /\ \A c \in Callers : answer'[c] = answer[c] => (AnswersOf(c)' <=> AnswersOf(c))
<1>1. \A c \in Callers : Job(c)' = Job(c) /\ Results(c)' = Results(c)
    BY DEF Job, Results
<1>2. CallsFixed' /\ \A c \in Callers : Copied(c)' = Copied(c)
    BY DEF ResultsInv, CallsFixed, Copied
<1>3. BuffersOwn'
    BY DEF ResultsInv, BuffersOwn, Results, Job
<1>4. \A c \in Callers : answer'[c] = answer[c] => (AnswersOf(c)' <=> AnswersOf(c))
    BY DEF AnswersOf, Results, Job
<1>5. QED
    BY <1>1, <1>2, <1>3, <1>4

\* What is answered at once is what the CPU's backend answers, a refusal, or nothing.
LEMMA AnswerResults ==
    ASSUME Types, ResultsInv, NEW c \in Callers,
           CpuCall(c) \/ Refuse(c) \/ Skip(c), UNCHANGED machine
    PROVE  ResultsInv'
<1>1. /\ UNCHANGED <<call, machine, queue, done, outBuf, staging, channel>>
      /\ pc' = [pc EXCEPT ![c] = "answered"]
    BY DEF CpuCall, Refuse, Skip, Answered, Move
<1>2. CallsFixed' /\ BuffersOwn' /\ (\A d \in Callers : Copied(d)' = Copied(d))
      /\ \A d \in Callers : Job(d)' = Job(d)
    BY <1>1, ResultsStay
<1>3. \A d \in Callers : pc'[d] = IF d = c THEN "answered" ELSE pc[d]
    BY <1>1 DEF Types
<1>4. Admitted' /\ DispatchFirst' /\ OkAfterCopy'
  <2>1. Admitted'
      BY <1>2, <1>3 DEF ResultsInv, Admitted
  <2>2. DispatchFirst'
    <3>1. queue' = queue /\ \A d \in Callers : pc'[d] = "submitted" => pc[d] = "submitted"
        BY <1>1, <1>3
    <3>2. QED
        BY <3>1 DEF ResultsInv, DispatchFirst
  <2>3. OkAfterCopy'
      BY <1>1, <1>2 DEF ResultsInv, OkAfterCopy
  <2>4. QED
      BY <2>1, <2>2, <2>3
<1>5. DOMAIN answer' = Callers /\ \A d \in Callers : d # c => answer'[d] = answer[d]
    BY DEF ResultsInv, AnswersJustified, CpuCall, Refuse, Skip, Answered
<1>6. AnswersOf(c)'
  <2>1. DOMAIN answer = Callers
      BY DEF ResultsInv, AnswersJustified
  <2>2. CASE CpuCall(c)
    <3>1. /\ call[c].backend \in AnyBackend(machine)
          /\ answer'[c] = Dispatched(machine, call[c].backend, Job(c))
        BY <2>1, <2>2 DEF CpuCall, Answered
    <3>2. QED
        BY <1>1, <1>2, <3>1 DEF AnswersOf
  <2>3. CASE Refuse(c)
    <3>1. /\ call[c].backend = "WebGpu" /\ Naive(Job(c)).err # None
          /\ answer'[c] = Fails(Naive(Job(c)).err)
        BY <2>1, <2>3 DEF Refuse, Ask, Answered
    <3>2. QED
        BY <1>1, <1>2, <3>1 DEF AnswersOf
  <2>4. CASE Skip(c)
    <3>1. /\ call[c].backend = "WebGpu" /\ Naive(Job(c)).err = None /\ Job(c).len = 0
          /\ answer'[c] = Writes(<<>>)
        BY <2>1, <2>4 DEF Skip, Ask, Answered
    <3>2. QED
        BY <1>1, <1>2, <3>1 DEF AnswersOf
  <2>5. QED
      BY <2>2, <2>3, <2>4
<1>7. AnswersJustified'
  <2>1. \A d \in Callers : d # c /\ pc'[d] = "answered" => AnswersOf(d)'
      BY <1>1, <1>3, <1>5, ResultsStay DEF ResultsInv, AnswersJustified
  <2>2. QED
      BY <1>5, <1>6, <2>1 DEF AnswersJustified
<1>8. QED
    BY <1>2, <1>4, <1>7 DEF ResultsInv

\* The dispatch, and the copy behind it, go to the end of the queue.
LEMMA SubmitResults ==
    ASSUME Types, ResultsInv, NEW c \in Callers, (Submit(c) \/ SubmitCopy(c)) /\ UNCHANGED machine
    PROVE  ResultsInv'
<1>1. /\ UNCHANGED <<call, machine, done, outBuf, staging, channel, answer>>
      /\ \E to \in {"panicked", "submitted", "copying"} : pc' = [pc EXCEPT ![c] = to]
      /\ Naive(Job(c)).err = None /\ Job(c).len > 0
    BY DEF Submit, SubmitCopy, Move, ResultsInv, Admitted
<1>2. PICK to \in {"panicked", "submitted", "copying"} : pc' = [pc EXCEPT ![c] = to]
    BY <1>1
<1>3. \A d \in Callers : pc'[d] = IF d = c THEN to ELSE pc[d]
    BY <1>2 DEF Types
<1>4. /\ \A d \in Callers : Job(d)' = Job(d) /\ Results(d)' = Results(d)
      /\ \A d \in Callers : AnswersOf(d)' <=> AnswersOf(d)
    BY <1>1 DEF Job, Results, AnswersOf
<1>5. CallsFixed' /\ Admitted' /\ AnswersJustified'
    BY <1>1, <1>3, <1>4 DEF ResultsInv, CallsFixed, Admitted, AnswersJustified
<1>6. \/ UNCHANGED queue /\ to = "panicked"
      \/ queue' = Append(queue, <<c, "compute">>) /\ to = "submitted"
      \/ queue' = Append(queue, <<c, "copy">>) /\ to = "copying" /\ pc[c] = "submitted"
    BY <1>2 DEF Submit, SubmitCopy, Move, Types
<1>7. CASE UNCHANGED queue
  <2>1. BuffersOwn'
      BY <1>1, <1>7, ResultsStay
  <2>2. to = "panicked"
    <3>1. \A x \in Callers \X {"compute", "copy"} : queue # Append(queue, x)
        BY DEF Types
    <3>2. QED
        BY <1>6, <1>7, <3>1
  <2>3. DispatchFirst'
      BY <1>3, <1>7, <2>2 DEF ResultsInv, DispatchFirst
  <2>4. OkAfterCopy'
      BY <1>1, <1>7 DEF ResultsInv, OkAfterCopy, Copied
  <2>5. QED
      BY <1>5, <2>1, <2>3, <2>4 DEF ResultsInv
<1>8. ASSUME NEW what \in {<<c, "compute">>, <<c, "copy">>}, queue' = Append(queue, what)
      PROVE  /\ Len(queue) \in Nat /\ Len(queue') = Len(queue) + 1
             /\ queue'[Len(queue) + 1] = what
             /\ \A j \in 1 .. Len(queue) : j \in 1 .. Len(queue') /\ queue'[j] = queue[j]
  <2>1. what \in Callers \X {"compute", "copy"}
      BY <1>8
  <2>2. QED
      BY <1>8, <2>1, QueuedStays
<1>9. CASE queue' # queue
  <2>1. PICK what \in {<<c, "compute">>, <<c, "copy">>} :
            /\ queue' = Append(queue, what)
            /\ what = <<c, "compute">> => to = "submitted"
            /\ what = <<c, "copy">> => to = "copying" /\ pc[c] = "submitted"
      BY <1>6, <1>9
  <2>2. PICK n : n = Len(queue)
      OBVIOUS
  <2>3. /\ n \in Nat /\ Len(queue') = n + 1 /\ queue'[n + 1] = what
        /\ \A j \in 1 .. n : j \in 1 .. n + 1 /\ queue'[j] = queue[j]
      BY <1>8, <2>1, <2>2
  <2>4. done \in 0 .. n
      BY <2>2 DEF Types
  <2>5. BuffersOwn'
    <3>1. \A j \in 1 .. done : queue'[j] = queue[j] /\ queue[j][1] \in Callers
      <4>1. \A j \in 1 .. done : j \in 1 .. n
          BY <2>3, <2>4
      <4>2. QED
          BY <2>2, <2>3, <4>1 DEF Types, ResultsInv
    <3>2. QED
        BY <1>1, <1>4, <3>1 DEF ResultsInv, BuffersOwn
  <2>6. OkAfterCopy'
    <3>1. \A j \in 1 .. done : queue'[j] = queue[j]
        BY <2>3, <2>4
    <3>2. \A d \in Callers : Copied(d) => Copied(d)'
        BY <1>1, <3>1 DEF Copied
    <3>3. QED
        BY <1>1, <3>2 DEF ResultsInv, OkAfterCopy
  <2>7. DispatchFirst'
    <3>1. ASSUME NEW d \in Callers, pc'[d] = "submitted"
          PROVE  \E k \in 1 .. Len(queue') : queue'[k] = <<d, "compute">>
      <4>1. CASE d = c
          BY <1>3, <2>1, <2>3, <3>1, <4>1
      <4>2. CASE d # c
        <5>1. PICK k \in 1 .. n : queue[k] = <<d, "compute">>
            BY <1>3, <2>2, <3>1, <4>2 DEF ResultsInv, DispatchFirst
        <5>2. QED
            BY <2>3, <5>1
      <4>3. QED
          BY <4>1, <4>2
    <3>2. ASSUME NEW j \in 1 .. Len(queue'), queue'[j][2] = "copy"
          PROVE  \E k \in 1 .. j - 1 : queue'[k] = <<queue'[j][1], "compute">>
      <4>1. CASE j = n + 1
        <5>1. what = <<c, "copy">> /\ pc[c] = "submitted"
            BY <2>1, <2>3, <3>2, <4>1
        <5>2. PICK k \in 1 .. n : queue[k] = <<c, "compute">>
            BY <2>2, <5>1 DEF ResultsInv, DispatchFirst
        <5>3. queue'[j][1] = c /\ j - 1 = n
            BY <2>3, <4>1, <5>1
        <5>4. QED
            BY <2>3, <5>2, <5>3
      <4>2. CASE j # n + 1
        <5>1. j \in 1 .. n /\ queue'[j] = queue[j]
            BY <2>3, <4>2
        <5>2. PICK k \in 1 .. j - 1 : queue[k] = <<queue[j][1], "compute">>
            BY <2>2, <3>2, <5>1 DEF ResultsInv, DispatchFirst
        <5>3. k \in 1 .. n
            BY <2>3, <5>1
        <5>4. QED
            BY <2>3, <5>1, <5>2, <5>3
      <4>3. QED
          BY <4>1, <4>2
    <3>3. QED
        BY <3>1, <3>2 DEF DispatchFirst
  <2>8. QED
      BY <1>5, <2>5, <2>6, <2>7 DEF ResultsInv
<1>10. QED
    BY <1>7, <1>9

\* The steps of read_back between the copy and the channel: none touches the
\* queue or a buffer, and a callback says Ok of a copy that ran only.
LEMMA WaitResults ==
    ASSUME DevicesInv, ResultsInv, NEW c \in Callers, UNCHANGED machine,
           MapAsync(c) \/ Poll(c) \/ Harvest(c) \/ Fire(c) \/ PollReturns(c)
    PROVE  ResultsInv'
<1>1. /\ UNCHANGED <<call, machine, queue, done, outBuf, staging, answer>>
      /\ pc[c] \notin {"ready", "answered", "submitted"}
    BY DEF MapAsync, Poll, Harvest, Fire, PollReturns
<1>2. UNCHANGED pc \/ \E to \in {"mapping", "polling", "firing", "receiving"} :
                         pc' = [pc EXCEPT ![c] = to]
    BY DEF MapAsync, Poll, Harvest, Fire, PollReturns, Move
<1>3. \A d \in Callers : /\ pc'[d] \in {"ready", "answered", "submitted"} => pc'[d] = pc[d]
                         /\ pc[d] \in {"ready", "answered", "submitted"} => pc'[d] = pc[d]
  <2>1. CASE UNCHANGED pc
      BY <2>1
  <2>2. ASSUME NEW to \in {"mapping", "polling", "firing", "receiving"},
               pc' = [pc EXCEPT ![c] = to]
        PROVE  \A d \in Callers : /\ pc'[d] \in {"ready", "answered", "submitted"} => pc'[d] = pc[d]
                                  /\ pc[d] \in {"ready", "answered", "submitted"} => pc'[d] = pc[d]
      BY <1>1, <2>2 DEF DevicesInv, Types
  <2>3. QED
      BY <1>2, <2>1, <2>2
<1>4. CallsFixed' /\ BuffersOwn' /\ (\A d \in Callers : Copied(d)' = Copied(d))
      /\ (\A d \in Callers : Job(d)' = Job(d))
      /\ \A d \in Callers : AnswersOf(d)' <=> AnswersOf(d)
    BY <1>1, ResultsStay
<1>5. Admitted'
    BY <1>3, <1>4 DEF ResultsInv, Admitted
<1>6. DispatchFirst'
  <2>1. queue' = queue /\ \A d \in Callers : pc'[d] = "submitted" => pc[d] = "submitted"
      BY <1>1, <1>3
  <2>2. QED
      BY <2>1 DEF ResultsInv, DispatchFirst
<1>7. AnswersJustified'
  <2>1. answer' = answer /\ \A d \in Callers : pc'[d] = "answered" => pc[d] = "answered"
      BY <1>1, <1>3
  <2>2. QED
      BY <1>4, <2>1 DEF ResultsInv, AnswersJustified
<1>8. OkAfterCopy'
  <2>1. CASE UNCHANGED channel
      BY <1>4, <2>1 DEF ResultsInv, OkAfterCopy
  <2>2. CASE Fire(c)
    <3>1. PICK d \in held[c], mapped \in {"Ok", "Err"} :
             /\ mapped = "Ok" => Copied(d)
             /\ channel' = [channel EXCEPT ![d] = Append(@, mapped)]
        BY <2>2 DEF Fire
    <3>2. d \in Callers /\ channel[d] = <<>>
        BY DEF DevicesInv, Types, CallbackOnce
    <3>3. channel' = [channel EXCEPT ![d] = <<mapped>>]
        BY <3>1, <3>2 DEF DevicesInv, Types
    <3>4. \A e \in Callers : channel'[e] = IF e = d THEN <<mapped>> ELSE channel[e]
        BY <3>2, <3>3 DEF DevicesInv, Types
    <3>5. Head(<<mapped>>) = mapped
        OBVIOUS
    <3>6. QED
        BY <1>4, <3>1, <3>4, <3>5 DEF ResultsInv, OkAfterCopy
  <2>3. QED
      BY <2>1, <2>2 DEF MapAsync, Poll, Harvest, PollReturns
<1>9. QED
    BY <1>4, <1>5, <1>6, <1>7, <1>8 DEF ResultsInv

\* What a caller reads out of its staging buffer is its own result.
LEMMA ReceiveResults ==
    ASSUME DevicesInv, ResultsInv, NEW c \in Callers, UNCHANGED machine, Receive(c)
    PROVE  ResultsInv'
<1>1. /\ UNCHANGED <<call, machine, queue, done, outBuf, staging, channel>>
      /\ pc[c] = "receiving" /\ channel[c] # <<>>
    BY DEF Receive
<1>2. PICK to \in {"answered", "panicked"} : pc' = [pc EXCEPT ![c] = to]
    BY DEF Receive, Answered, Move
<1>3. \A d \in Callers : pc'[d] = IF d = c THEN to ELSE pc[d]
    BY <1>2 DEF DevicesInv, Types
<1>4. CallsFixed' /\ BuffersOwn' /\ (\A d \in Callers : Copied(d)' = Copied(d))
      /\ (\A d \in Callers : Job(d)' = Job(d))
    BY <1>1, ResultsStay
<1>5. Admitted'
    BY <1>1, <1>3, <1>4 DEF ResultsInv, Admitted
<1>6. DispatchFirst'
  <2>1. queue' = queue /\ \A d \in Callers : pc'[d] = "submitted" => pc[d] = "submitted"
      BY <1>1, <1>3
  <2>2. QED
      BY <2>1 DEF ResultsInv, DispatchFirst
<1>7. OkAfterCopy'
    BY <1>1, <1>4 DEF ResultsInv, OkAfterCopy
<1>8. AnswersJustified'
  <2>1. DOMAIN answer = Callers
      BY DEF ResultsInv, AnswersJustified
  <2>2. CASE Head(channel[c]) = "Ok"
    <3>1. PICK j \in 1 .. done : queue[j] = <<c, "copy">>
        BY <1>1, <2>2 DEF ResultsInv, OkAfterCopy, Copied
    <3>2. staging[c] \in Results(c)
        BY <3>1 DEF ResultsInv, BuffersOwn
    <3>3. answer' = [answer EXCEPT ![c] = Writes(staging[c])]
        BY <2>2 DEF Receive, Answered
    <3>4. answer'[c] = Writes(staging[c]) /\ DOMAIN answer' = Callers
          /\ \A d \in Callers : d # c => answer'[d] = answer[d]
        BY <2>1, <3>3
    <3>5. call[c].backend = "WebGpu" /\ Naive(Job(c)).err = None /\ Job(c).len > 0
        BY <1>1 DEF DevicesInv, ErrorsJustified, ResultsInv, Admitted
    <3>6. call' = call /\ machine' = machine /\ Job(c)' = Job(c) /\ Results(c)' = Results(c)
        BY <1>1, ResultsStay
    <3>7. AnswersOf(c)'
        BY <3>2, <3>4, <3>5, <3>6 DEF AnswersOf
    <3>8. \A d \in Callers : d # c /\ pc'[d] = "answered" => AnswersOf(d)'
        BY <1>1, <1>3, <3>4, ResultsStay DEF ResultsInv, AnswersJustified
    <3>9. QED
        BY <3>4, <3>7, <3>8 DEF AnswersJustified
  <2>3. CASE Head(channel[c]) # "Ok"
    <3>1. answer' = answer /\ pc' = [pc EXCEPT ![c] = "panicked"]
        BY <2>3 DEF Receive, Move
    <3>2. \A d \in Callers : pc'[d] = IF d = c THEN "panicked" ELSE pc[d]
        BY <3>1 DEF DevicesInv, Types
    <3>3. \A d \in Callers : pc'[d] = "answered" => AnswersOf(d)'
        BY <1>1, <3>1, <3>2, ResultsStay DEF ResultsInv, AnswersJustified
    <3>4. QED
        BY <2>1, <3>1, <3>3 DEF AnswersJustified
  <2>4. QED
      BY <2>2, <2>3
<1>9. QED
    BY <1>4, <1>5, <1>6, <1>7, <1>8 DEF ResultsInv

\* The device runs a dispatch into its caller's output buffer, and a copy of what
\* is there, its dispatch having run, into the same caller's staging buffer.
LEMMA DeviceResults ==
    ASSUME Types, ResultsInv, UNCHANGED machine, Acquire \/ Execute \/ Lose
    PROVE  ResultsInv'
<1>1. UNCHANGED <<call, machine, pc, queue, answer, channel>>
    BY DEF Acquire, Execute, Lose
<1>2. CallsFixed' /\ Admitted' /\ DispatchFirst'
  <2>1. (\A d \in Callers : Job(d)' = Job(d)) /\ CallsFixed'
      BY <1>1 DEF Job, ResultsInv, CallsFixed
  <2>2. Admitted'
      BY <1>1, <2>1 DEF ResultsInv, Admitted
  <2>3. DispatchFirst'
      BY <1>1 DEF ResultsInv, DispatchFirst
  <2>4. QED
      BY <2>1, <2>2, <2>3
<1>3. AnswersJustified'
  <2>1. \A d \in Callers : AnswersOf(d)' <=> AnswersOf(d)
      BY <1>1 DEF AnswersOf, Results, Job
  <2>2. QED
      BY <1>1, <2>1 DEF ResultsInv, AnswersJustified
<1>4. CASE Acquire \/ Lose
  <2>1. UNCHANGED <<done, outBuf, staging>>
      BY <1>4 DEF Acquire, Lose
  <2>2. BuffersOwn' /\ \A d \in Callers : Copied(d)' = Copied(d)
      BY <1>1, <2>1, ResultsStay
  <2>3. OkAfterCopy'
      BY <1>1, <2>2 DEF ResultsInv, OkAfterCopy
  <2>4. QED
      BY <1>2, <1>3, <2>2, <2>3 DEF ResultsInv
<1>5. CASE Execute
  <2>1. PICK j, c, what : j = done + 1 /\ c = queue[j][1] /\ what = queue[j][2]
      OBVIOUS
  <2>2. /\ j \in 1 .. Len(queue) /\ done \in Nat /\ done' = j /\ c \in Callers
        /\ what \in {"compute", "copy"}
      BY <1>5, <2>1 DEF Execute, Types
  <2>4. ASSUME what = "compute" PROVE BuffersOwn'
    <3>1. PICK nanMax \in {"nan", "zero"} : outBuf' = [outBuf EXCEPT ![c] = Computed(Job(c), nanMax)]
        BY <1>5, <2>1, <2>4 DEF Execute
    <3>2. staging' = staging
        BY <1>5, <2>1, <2>4 DEF Execute
    <3>3. DOMAIN outBuf = Callers /\ DOMAIN staging = Callers
        BY DEF ResultsInv, BuffersOwn
    <3>4. /\ DOMAIN outBuf' = Callers /\ outBuf'[c] \in Results(c)
          /\ \A d \in Callers : d # c => outBuf'[d] = outBuf[d]
        BY <2>2, <3>1, <3>3 DEF Results
    <3>5. ASSUME NEW k \in 1 .. done'
          PROVE  IF queue[k][2] = "compute" THEN outBuf'[queue[k][1]] \in Results(queue[k][1])
                 ELSE staging'[queue[k][1]] \in Results(queue[k][1])
      <4>1. k = j \/ k \in 1 .. done
          BY <2>1, <2>2, <3>5
      <4>2. PICK d, w : d = queue[k][1] /\ w = queue[k][2]
          OBVIOUS
      <4>3. d \in Callers
          BY <2>2, <3>5, <4>2 DEF Types
      <4>4. CASE k = j
          BY <2>1, <2>4, <3>4, <4>4
      <4>5. CASE k \in 1 .. done
        <5>1. IF w = "compute" THEN outBuf[d] \in Results(d) ELSE staging[d] \in Results(d)
            BY <4>2, <4>5 DEF ResultsInv, BuffersOwn
        <5>2. IF w = "compute" THEN outBuf'[d] \in Results(d) ELSE staging'[d] \in Results(d)
            BY <3>2, <3>4, <4>3, <5>1
        <5>3. QED
            BY <4>2, <5>2
      <4>6. QED
          BY <4>1, <4>4, <4>5
    <3>6. QED
        BY <1>1, <3>2, <3>3, <3>4, <3>5 DEF BuffersOwn, Results, Job
  <2>5. ASSUME what = "copy" PROVE BuffersOwn'
    <3>1. staging' = [staging EXCEPT ![c] = outBuf[c]] /\ outBuf' = outBuf
        BY <1>5, <2>1, <2>5 DEF Execute
    <3>2. DOMAIN outBuf = Callers /\ DOMAIN staging = Callers
        BY DEF ResultsInv, BuffersOwn
    <3>3. outBuf[c] \in Results(c)
      <4>1. PICK k \in 1 .. j - 1 : queue[k] = <<c, "compute">>
          BY <2>1, <2>2, <2>5 DEF ResultsInv, DispatchFirst
      <4>2. k \in 1 .. done
          BY <2>1, <2>2
      <4>3. QED
          BY <4>1, <4>2 DEF ResultsInv, BuffersOwn
    <3>4. /\ DOMAIN staging' = Callers /\ staging'[c] \in Results(c)
          /\ \A d \in Callers : d # c => staging'[d] = staging[d]
        BY <2>2, <3>1, <3>2, <3>3
    <3>5. ASSUME NEW k \in 1 .. done'
          PROVE  IF queue[k][2] = "compute" THEN outBuf'[queue[k][1]] \in Results(queue[k][1])
                 ELSE staging'[queue[k][1]] \in Results(queue[k][1])
      <4>1. k = j \/ k \in 1 .. done
          BY <2>1, <2>2, <3>5
      <4>2. PICK d, w : d = queue[k][1] /\ w = queue[k][2]
          OBVIOUS
      <4>3. d \in Callers
          BY <2>2, <3>5, <4>2 DEF Types
      <4>4. CASE k = j
          BY <2>1, <2>5, <3>4, <4>4
      <4>5. CASE k \in 1 .. done
        <5>1. IF w = "compute" THEN outBuf[d] \in Results(d) ELSE staging[d] \in Results(d)
            BY <4>2, <4>5 DEF ResultsInv, BuffersOwn
        <5>2. IF w = "compute" THEN outBuf'[d] \in Results(d) ELSE staging'[d] \in Results(d)
            BY <3>1, <3>4, <4>3, <5>1
        <5>3. QED
            BY <4>2, <5>2
      <4>6. QED
          BY <4>1, <4>4, <4>5
    <3>6. QED
        BY <1>1, <3>1, <3>2, <3>4, <3>5 DEF BuffersOwn, Results, Job
  <2>6. BuffersOwn'
      BY <2>2, <2>4, <2>5
  <2>7. OkAfterCopy'
    <3>1. \A d \in Callers : Copied(d) => Copied(d)'
        BY <1>1, <2>1, <2>2 DEF Copied
    <3>2. QED
        BY <1>1, <3>1 DEF ResultsInv, OkAfterCopy
  <2>8. QED
      BY <1>2, <1>3, <2>6, <2>7 DEF ResultsInv
<1>6. QED
    BY <1>4, <1>5

\* Whatever step is taken, results stay their callers' own.
LEMMA ResultsKeep == DevicesInv /\ ResultsInv /\ [Next]_vars => ResultsInv'
<1> SUFFICES ASSUME DevicesInv, ResultsInv, [Next]_vars PROVE ResultsInv'
    OBVIOUS
<1>1. Types
    BY DEF DevicesInv
<1>2. CASE Device
    BY <1>1, <1>2, DeviceResults DEF Device
<1>3. ASSUME NEW c \in Callers, CpuCall(c) \/ GpuStep(c) PROVE ResultsInv'
  <2>1. CASE CpuCall(c)
    <3>1. UNCHANGED machine
        BY <2>1 DEF CpuCall
    <3>2. QED
        BY <1>1, <2>1, <3>1, AnswerResults
  <2>2. CASE GpuStep(c)
    <3>1. UNCHANGED machine
        BY <2>2 DEF GpuStep
    <3>2. CASE Refuse(c) \/ Skip(c)
        BY <1>1, <3>1, <3>2, AnswerResults
    <3>3. CASE Submit(c) \/ SubmitCopy(c)
        BY <1>1, <3>1, <3>3, SubmitResults
    <3>4. CASE MapAsync(c) \/ Poll(c) \/ Harvest(c) \/ Fire(c) \/ PollReturns(c)
        BY <3>1, <3>4, WaitResults
    <3>5. CASE Receive(c)
        BY <3>1, <3>5, ReceiveResults
    <3>6. QED
        BY <2>2, <3>2, <3>3, <3>4, <3>5 DEF GpuStep, CallStep
  <2>3. QED
      BY <1>3, <2>1, <2>2
<1>4. CASE UNCHANGED vars
  <2>1. UNCHANGED <<call, machine, pc, answer, queue, done, outBuf, staging, channel>>
      BY <1>4 DEF vars, gpuVars
  <2>2. CallsFixed' /\ BuffersOwn' /\ (\A d \in Callers : Copied(d)' = Copied(d))
        /\ (\A d \in Callers : Job(d)' = Job(d))
        /\ \A d \in Callers : AnswersOf(d)' <=> AnswersOf(d)
      BY <2>1, ResultsStay
  <2>3. Admitted'
      BY <2>1, <2>2 DEF ResultsInv, Admitted
  <2>4. DispatchFirst'
      BY <2>1 DEF ResultsInv, DispatchFirst
  <2>5. OkAfterCopy'
      BY <2>1, <2>2 DEF ResultsInv, OkAfterCopy
  <2>6. AnswersJustified'
      BY <2>1, <2>2 DEF ResultsInv, AnswersJustified
  <2>7. QED
      BY <2>2, <2>3, <2>4, <2>5, <2>6 DEF ResultsInv
<1>5. QED
    BY <1>2, <1>3, <1>4 DEF Next

-----------------------------------------------------------------------------
(* What a kernel answers *)

\* An answer is a refusal, or the output of a kernel whose checks all passed.
LEMMA AnswerIs ==
    ASSUME NEW checks, NEW out
    PROVE  LET r == Answer(checks, out)
           IN  /\ r.err # None => r = Fails(r.err)
               /\ r.err = None => r = Writes(out) /\ FirstError(checks) = None
  BY DEF Answer, Fails, Writes, None

\* No check failed when there is no first that did.
LEMMA AllPassed ==
    ASSUME NEW n \in Nat, NEW checks, DOMAIN checks = 1 .. n, Len(checks) = n,
           FirstError(checks) = None
    PROVE  \A k \in 1 .. n : checks[k] = None
  <1>1. PICK S : S = {k \in 1 .. Len(checks) : checks[k] # None}
    OBVIOUS
  <1>2. FirstError(checks) = LET j == IF S # {} THEN Min(S) ELSE 0
                             IN  IF j = 0 THEN None ELSE checks[j]
    BY <1>1, Zenon DEF FirstError, SelectInSeq
  <1>3. ASSUME S # {} PROVE FALSE
    <2>1. S \in SUBSET Nat
      BY <1>1
    <2>2. Min(S) \in S
      BY <1>3, <2>1, MinIs
    <2>3. QED
      BY <1>1, <1>2, <1>3, <2>2
  <1>4. QED
    BY <1>1, <1>3

\* One write to each index fills the buffer with what is written there.
LEMMA WrittenIs ==
    ASSUME NEW len \in Nat, NEW writes, NEW f,
           \A i \in 0 .. len - 1 : {w \in writes : w[1] = i} = {<<i, f[i]>>}
    PROVE  Written(len, writes) = [j \in 1 .. len |-> f[j - 1]]
  <1>1. ASSUME NEW i \in 0 .. len - 1
        PROVE  LET here == {w \in writes : w[1] = i}
               IN  Cardinality(here) = 1 /\ (CHOOSE w \in here : TRUE)[2] = f[i]
    <2>1. PICK p : p = <<i, f[i]>>
      OBVIOUS
    <2>2. {w \in writes : w[1] = i} = {p}
      BY <2>1
    <2>3. Cardinality({p}) = 1
      BY FS_Singleton
    <2>4. (CHOOSE w \in {p} : TRUE) = p
      OBVIOUS
    <2>5. p[2] = f[i]
      BY <2>1
    <2>6. QED
      BY <2>2, <2>3, <2>4, <2>5
  <1>2. \A j \in 1 .. len : j - 1 \in 0 .. len - 1
    OBVIOUS
  <1> DEFINE here(i) == {w \in writes : w[1] = i}
             g(i) == IF Cardinality(here(i)) = 1 THEN (CHOOSE w \in here(i) : TRUE)[2] ELSE Garbage
  <1>3. Written(len, writes) = [j \in 1 .. len |-> g(j - 1)]
    BY Zenon DEF Written, Fill
  <1>4. \A i \in 0 .. len - 1 : g(i) = f[i]
    BY <1>1, Zenon
  <1> HIDE DEF g
  <1>5. QED
    BY <1>2, <1>3, <1>4

\* There are enough workgroups for the items.
LEMMA GridCovers ==
    ASSUME NEW items \in Nat, NEW side \in Nat \ {0}
    PROVE  Ceil(items, side) * side \in Nat /\ Ceil(items, side) * side >= items
  <1>1. PICK x, q, r : x = items + side - 1 /\ q = x \div side /\ r = x % side
    OBVIOUS
  <1>2. x \in Nat /\ q \in Nat /\ r \in Nat /\ r < side /\ x = q * side + r
    <2>1. x \in Nat
      BY <1>1
    <2>2. QED
      BY <1>1, <2>1
  <1>3. PICK y : y = q * side
    OBVIOUS
  <1>4. y \in Nat /\ y >= items
    BY <1>1, <1>2, <1>3
  <1>5. Ceil(items, side) * side = y
    BY <1>1, <1>3 DEF Ceil
  <1>6. QED
    BY <1>4, <1>5

\* The threads of a dispatch that have an element, one each.
LEMMA ThreadsCover ==
    ASSUME NEW items \in Nat
    PROVE  {t \in Threads(items) : t < items} = 0 .. items - 1
  <1>1. PICK c, g : c = Ceil(items, GroupSize) * GroupSize /\ g = c - 1
    OBVIOUS
  <1>2. g \in Int /\ g + 1 >= items
    <2>1. GroupSize \in Nat \ {0}
      BY GridAssumption
    <2>2. c \in Nat /\ c >= items
      BY <1>1, <2>1, GridCovers, Zenon
    <2>3. QED
      BY <1>1, <2>2
  <1>3. Threads(items) = 0 .. g
    BY <1>1 DEF Threads
  <1>4. QED
    BY <1>2, <1>3

\* Those of matmul's tiles, along one side.
LEMMA TilesCover ==
    ASSUME NEW items \in Nat
    PROVE  {t \in Tiles(items) : t < items} = 0 .. items - 1
  <1>1. PICK c, g : c = Ceil(items, TileSide) * TileSide /\ g = c - 1
    OBVIOUS
  <1>2. g \in Int /\ g + 1 >= items
    <2>1. TileSide \in Nat \ {0}
      BY GridAssumption
    <2>2. c \in Nat /\ c >= items
      BY <1>1, <2>1, GridCovers, Zenon
    <2>3. QED
      BY <1>1, <2>2
  <1>3. Tiles(items) = 0 .. g
    BY <1>1 DEF Tiles
  <1>4. QED
    BY <1>2, <1>3

-----------------------------------------------------------------------------
(* The element-wise operators *)

\* elementwise_add refuses, or adds element by element.
LEMMA AddIs ==
    ASSUME NEW job, job.op = "add"
    PROVE  /\ Naive(job).err # None => Naive(job) = Fails(Naive(job).err)
           /\ Naive(job).err = None =>
                 Naive(job) = Writes([j \in 1 .. job.len |-> <<"Add", At(job.a, j - 1), At(job.b, j - 1)>>])
  <1>1. PICK out : out = [j \in 1 .. job.len |-> <<"Add", At(job.a, j - 1), At(job.b, j - 1)>>]
    OBVIOUS
  <1>2. \E checks : Naive(job) = Answer(checks, out)
    <2>1. Naive(job) = ElementwiseAdd(job.a, job.b, job.len)
      BY DEF Naive
    <2>2. QED
      BY <1>1, <2>1, Zenon DEF Fill, ElementwiseAdd
  <1>3. QED
    BY <1>1, <1>2, AnswerIs

\* sigmoid and gelu refuse, or go element by element.
LEMMA UnaryIs ==
    ASSUME NEW job, job.op \in {"sigmoid", "gelu"}
    PROVE  /\ Naive(job).err # None => Naive(job) = Fails(Naive(job).err)
           /\ Naive(job).err = None =>
                 Naive(job) = Writes([j \in 1 .. job.len |-> <<job.op, At(job.a, j - 1)>>])
  <1>1. PICK out : out = [j \in 1 .. job.len |-> <<job.op, At(job.a, j - 1)>>]
    OBVIOUS
  <1>2. \E checks : Naive(job) = Answer(checks, out)
    <2>1. Naive(job) = Unary(job.op, job.a, job.len)
      BY DEF Naive
    <2>2. QED
      BY <1>1, <2>1, Zenon DEF Fill, Unary
  <1>3. QED
    BY <1>1, <1>2, AnswerIs

\* relu refuses, or goes element by element over all of its operand.
LEMMA ReluIs ==
    ASSUME NEW job, job.op = "relu"
    PROVE  /\ Naive(job).err # None => Naive(job) = Fails(Naive(job).err)
           /\ Naive(job).err = None =>
                 /\ Naive(job) = Writes([j \in 1 .. job.len |-> ScalarRelu(At(job.a, j - 1))])
                 /\ job.len = Len(job.a)
  <1>1. PICK out, check : /\ out = [j \in 1 .. job.len |-> ScalarRelu(At(job.a, j - 1))]
                          /\ check = Require(job.len = Len(job.a), "Op.SizeMismatch")
    OBVIOUS
  <1>2. Naive(job) = Answer(<<check>>, out)
    <2>1. Naive(job) = Relu(job.a, job.len)
      BY DEF Naive
    <2>2. QED
      BY <1>1, <2>1, Zenon DEF Fill, Relu
  <1>3. ASSUME FirstError(<<check>>) = None PROVE job.len = Len(job.a)
    <2>1. PICK n, checks : n = 1 /\ checks = <<check>>
      OBVIOUS
    <2>2. n \in Nat /\ DOMAIN checks = 1 .. n /\ Len(checks) = n /\ FirstError(checks) = None
      BY <1>3, <2>1
    <2>3. \A k \in 1 .. n : checks[k] = None
      BY <2>2, AllPassed
    <2>4. QED
      BY <1>1, <2>1, <2>3 DEF Require, None
  <1>4. QED
    BY <1>1, <1>2, <1>3, AnswerIs

\* One thread writes one element.
LEMMA ElementwiseShader ==
    ASSUME NEW len \in Nat, NEW f, DOMAIN f = 0 .. len - 1
    PROVE  Written(len, {<<i, f[i]>> : i \in {t \in Threads(len) : t < len}})
             = [j \in 1 .. len |-> f[j - 1]]
  <1>1. PICK writes : writes = {<<i, f[i]>> : i \in {t \in Threads(len) : t < len}}
    OBVIOUS
  <1>2. writes = {<<i, f[i]>> : i \in 0 .. len - 1}
    BY <1>1, ThreadsCover
  <1>3. \A i \in 0 .. len - 1 : {w \in writes : w[1] = i} = {<<i, f[i]>>}
    BY <1>2
  <1>4. QED
    <2>1. Written(len, writes) = [j \in 1 .. len |-> f[j - 1]]
      BY <1>3, WrittenIs
    <2>2. QED
      BY <1>1, <2>1

\* add_main adds element by element.
LEMMA AddShaderIs ==
    ASSUME NEW job, job.len \in Nat
    PROVE  AddShader(job) = [j \in 1 .. job.len |-> <<"Add", At(job.a, j - 1), At(job.b, j - 1)>>]
  <1>1. PICK f : f = [i \in 0 .. job.len - 1 |-> <<"Add", At(job.a, i), At(job.b, i)>>]
    OBVIOUS
  <1>2. {t \in Threads(job.len) : t < job.len} = 0 .. job.len - 1
    BY ThreadsCover
  <1>3. AddShader(job) = Written(job.len, {<<i, f[i]>> : i \in {t \in Threads(job.len) : t < job.len}})
    <2>1. {<<i, <<"Add", At(job.a, i), At(job.b, i)>>>> : i \in {t \in Threads(job.len) : t < job.len}}
            = {<<i, f[i]>> : i \in {t \in Threads(job.len) : t < job.len}}
      BY <1>1, <1>2
    <2>2. QED
      BY <2>1, Zenon DEF AddShader
  <1>4. AddShader(job) = [j \in 1 .. job.len |-> f[j - 1]]
    <2>1. DOMAIN f = 0 .. job.len - 1
      BY <1>1
    <2>2. QED
      BY <1>3, <2>1, ElementwiseShader, Zenon
  <1>5. \A j \in 1 .. job.len : j - 1 \in 0 .. job.len - 1
    OBVIOUS
  <1>6. QED
    BY <1>1, <1>4, <1>5

\* relu's element, whatever the shader's max makes of a NaN, when there is none.
LEMMA UnaryShaderIs ==
    ASSUME NEW job, job.len \in Nat, NEW nanMax,
           job.op = "relu" => \A i \in 0 .. job.len - 1 : At(job.a, i) # "nan"
    PROVE  UnaryShader(job, nanMax) =
              [j \in 1 .. job.len |-> IF job.op = "relu" THEN ScalarRelu(At(job.a, j - 1))
                                      ELSE <<job.op, At(job.a, j - 1)>>]
  <1> DEFINE v(i) == IF job.op = "relu" THEN ScalarRelu(At(job.a, i)) ELSE <<job.op, At(job.a, i)>>
             relu(x)  == IF x = "nan" THEN nanMax ELSE ScalarRelu(x)
             value(x) == IF job.op = "relu" THEN relu(x) ELSE <<job.op, x>>
  <1>1. PICK f : f = [i \in 0 .. job.len - 1 |-> v(i)]
    OBVIOUS
  <1>2. {t \in Threads(job.len) : t < job.len} = 0 .. job.len - 1
    BY ThreadsCover
  <1>3. \A i \in 0 .. job.len - 1 : value(At(job.a, i)) = v(i)
    <2>1. CASE job.op = "relu"
      BY <2>1
    <2>2. CASE job.op # "relu"
      BY <2>2
    <2>3. QED
      BY <2>1, <2>2
  <1>4. UnaryShader(job, nanMax)
          = Written(job.len, {<<i, value(At(job.a, i))>> : i \in {t \in Threads(job.len) : t < job.len}})
    BY Zenon DEF UnaryShader
  <1> HIDE DEF v, relu, value
  <1>5. {<<i, value(At(job.a, i))>> : i \in {t \in Threads(job.len) : t < job.len}}
          = {<<i, f[i]>> : i \in {t \in Threads(job.len) : t < job.len}}
    BY <1>1, <1>2, <1>3
  <1>6. UnaryShader(job, nanMax) = [j \in 1 .. job.len |-> f[j - 1]]
    <2>1. DOMAIN f = 0 .. job.len - 1
      BY <1>1
    <2>2. QED
      BY <1>4, <1>5, <2>1, ElementwiseShader, Zenon
  <1>7. \A j \in 1 .. job.len : j - 1 \in 0 .. job.len - 1
    OBVIOUS
  <1>8. UnaryShader(job, nanMax) = [j \in 1 .. job.len |-> v(j - 1)]
    BY <1>1, <1>6, <1>7
  <1>9. QED
    BY <1>8 DEF v

-----------------------------------------------------------------------------
(* Rows of columns: softmax and matmul *)

\* There are m rows of n among p elements.
InRows(p, m, n) == p = m * n

\* An index is a row and a column.
LEMMA RowAndColumn ==
    ASSUME NEW n \in Nat \ {0}, NEW q \in Nat, NEW r \in 0 .. n - 1
    PROVE  (q * n + r) \div n = q /\ (q * n + r) % n = r
  <1>1. PICK x, y : x = q * n /\ y = x + r
    OBVIOUS
  <1>2. x \in Nat /\ y \in Nat
    BY <1>1
  <1>3. PICK d, e, z : d = y \div n /\ e = y % n /\ z = d * n
    OBVIOUS
  <1>4. d \in Nat /\ e \in Nat /\ e < n /\ z \in Nat /\ y = z + e
    BY <1>2, <1>3
  <1>5. d = q
    <2>1. CASE d >= q + 1
      <3>1. PICK k : k = d - (q + 1)
        OBVIOUS
      <3>2. k \in Nat /\ d = q + 1 + k
        BY <1>4, <2>1, <3>1
      <3>3. z = x + n + k * n /\ k * n \in Nat
        BY <1>1, <1>3, <3>2
      <3>4. QED
        BY <1>1, <1>2, <1>4, <3>3
    <2>2. CASE q >= d + 1
      <3>1. PICK k : k = q - (d + 1)
        OBVIOUS
      <3>2. k \in Nat /\ q = d + 1 + k
        BY <1>4, <2>2, <3>1
      <3>3. x = z + n + k * n /\ k * n \in Nat
        BY <1>1, <1>3, <1>4, <3>2
      <3>4. QED
        BY <1>1, <1>2, <1>4, <3>3
    <2>3. QED
      BY <1>4, <2>1, <2>2
  <1>6. z = x
    BY <1>1, <1>3, <1>5
  <1>7. QED
    BY <1>1, <1>2, <1>3, <1>4, <1>5, <1>6

\* An index of rows and columns is one of each.
LEMMA RowColumnOf ==
    ASSUME NEW m \in Nat, NEW n \in Nat, NEW p, InRows(p, m, n), NEW i \in 0 .. p - 1
    PROVE  /\ n # 0 /\ i \div n \in 0 .. m - 1 /\ i % n \in 0 .. n - 1
           /\ i = (i \div n) * n + (i % n)
  <1>1. p = m * n
    BY DEF InRows
  <1>2. p \in Nat /\ i \in Nat /\ i < p
    BY <1>1
  <1>3. n # 0 /\ m # 0
    <2>1. m * 0 = 0 /\ 0 * n = 0
      OBVIOUS
    <2>2. QED
      BY <1>1, <1>2, <2>1
  <1>4. PICK d, e, z : d = i \div n /\ e = i % n /\ z = d * n
    OBVIOUS
  <1>5. d \in Nat /\ e \in Nat /\ e < n /\ z \in Nat /\ i = z + e
    BY <1>2, <1>3, <1>4
  <1>6. d < m
    <2>1. CASE d >= m
      <3>1. PICK k : k = d - m
        OBVIOUS
      <3>2. k \in Nat /\ d = m + k
        BY <1>5, <2>1, <3>1
      <3>3. z = p + k * n /\ k * n \in Nat
        BY <1>1, <1>4, <3>2
      <3>4. QED
        BY <1>2, <1>5, <3>3
    <2>2. QED
      BY <1>5, <2>1
  <1>7. QED
    BY <1>3, <1>4, <1>5, <1>6

\* One write to each column of each row.
WritesRows(writes, m, n, f) ==
    \A w : w \in writes <=>
        \E q \in 0 .. m - 1, r \in 0 .. n - 1 : w = <<q * n + r, f[<<q, r>>]>>

\* Such writes fill the buffer row by row.
LEMMA GridWritten ==
    ASSUME NEW m \in Nat, NEW n \in Nat, NEW len, InRows(len, m, n), NEW f, NEW writes,
           WritesRows(writes, m, n, f)
    PROVE  Written(len, writes) = [j \in 1 .. len |-> f[<<(j - 1) \div n, (j - 1) % n>>]]
  <1>2. len \in Nat
    BY DEF InRows
  <1>3. PICK g : g = [i \in 0 .. len - 1 |-> f[<<i \div n, i % n>>]]
    OBVIOUS
  <1>4. ASSUME NEW i \in 0 .. len - 1 PROVE {w \in writes : w[1] = i} = {<<i, g[i]>>}
    <2>1. PICK q, r : q = i \div n /\ r = i % n
      OBVIOUS
    <2>2. n # 0 /\ q \in 0 .. m - 1 /\ r \in 0 .. n - 1 /\ i = q * n + r
      BY <2>1, RowColumnOf
    <2>3. g[i] = f[<<q, r>>]
      BY <1>3, <2>1
    <2>4. <<i, g[i]>> \in writes
      BY <2>2, <2>3 DEF WritesRows
    <2>5. ASSUME NEW w \in writes, w[1] = i PROVE w = <<i, g[i]>>
      <3>1. PICK q2 \in 0 .. m - 1, r2 \in 0 .. n - 1 : w = <<q2 * n + r2, f[<<q2, r2>>]>>
        BY DEF WritesRows
      <3>2. i = q2 * n + r2
        BY <2>5, <3>1
      <3>3. (q2 * n + r2) \div n = q2 /\ (q2 * n + r2) % n = r2
        BY <2>2, RowAndColumn
      <3>4. q2 = q /\ r2 = r
        BY <2>1, <3>2, <3>3, Zenon
      <3>5. QED
        BY <2>3, <3>1, <3>2, <3>4, Zenon
    <2>6. <<i, g[i]>>[1] = i
      OBVIOUS
    <2>7. QED
      BY <2>4, <2>5, <2>6, Zenon
  <1>5. Written(len, writes) = [j \in 1 .. len |-> g[j - 1]]
    BY <1>2, <1>4, WrittenIs
  <1>6. \A j \in 1 .. len : j - 1 \in 0 .. len - 1
    BY <1>2
  <1>7. \A j \in 1 .. len : g[j - 1] = f[<<(j - 1) \div n, (j - 1) % n>>]
    BY <1>3, <1>6
  <1>8. QED
    BY <1>5, <1>7

\* A division that leaves nothing.
LEMMA ExactDivision ==
    ASSUME NEW a \in Nat, NEW n \in Nat \ {0}, a % n = 0
    PROVE  a \div n \in Nat /\ a = (a \div n) * n
  OBVIOUS

\* A row more.
LEMMA NextRow ==
    ASSUME NEW q \in Nat, NEW n \in Nat
    PROVE  (q + 1) * n = q * n + n
  OBVIOUS

\* softmax refuses, or normalises whole rows.
LEMMA SoftmaxIs ==
    ASSUME NEW job, job.op = "softmax"
    PROVE  LET n == job.opts.rowLen IN
           /\ Naive(job).err # None => Naive(job) = Fails(Naive(job).err)
           /\ Naive(job).err = None =>
                 /\ Naive(job) = Writes([j \in 1 .. job.len |->
                       <<"Softmax", At(job.a, j - 1),
                         SubSeq(job.a, ((j - 1) \div n) * n + 1, ((j - 1) \div n) * n + n)>>])
                 /\ job.len = Len(job.a) /\ n # 0 /\ Len(job.a) % n = 0
  <1>1. PICK n, out, c1, c2 :
           /\ n = job.opts.rowLen
           /\ out = [j \in 1 .. job.len |->
                       <<"Softmax", At(job.a, j - 1),
                         SubSeq(job.a, ((j - 1) \div n) * n + 1, ((j - 1) \div n) * n + n)>>]
           /\ c1 = Require(job.len = Len(job.a), "Op.SizeMismatch")
           /\ c2 = IF n = 0 THEN "Op.Invalid" ELSE Require(Len(job.a) % n = 0, "Op.Invalid")
    OBVIOUS
  <1>2. Naive(job) = Answer(<<c1, c2>>, out)
    <2>1. Naive(job) = Softmax(job.a, job.len, n)
      BY <1>1 DEF Naive
    <2>2. QED
      BY <1>1, <2>1, Zenon DEF Fill, Softmax
  <1>3. ASSUME FirstError(<<c1, c2>>) = None
        PROVE  job.len = Len(job.a) /\ n # 0 /\ Len(job.a) % n = 0
    <2>1. PICK k, checks : k = 2 /\ checks = <<c1, c2>>
      OBVIOUS
    <2>2. k \in Nat /\ DOMAIN checks = 1 .. k /\ Len(checks) = k /\ FirstError(checks) = None
      BY <1>3, <2>1
    <2>3. \A x \in 1 .. k : checks[x] = None
      BY <2>2, AllPassed
    <2>4. c1 = None /\ c2 = None
      BY <2>1, <2>3
    <2>5. QED
      BY <1>1, <2>4 DEF Require, None
  <1>4. QED
    BY <1>1, <1>2, <1>3, AnswerIs

\* A row of the shader's writes per thread.
SoftmaxWrites(a, m, n) ==
    UNION {{<<r * n + i, <<"Softmax", At(a, r * n + i), SubSeq(a, r * n + 1, (r + 1) * n)>>>> :
            i \in 0 .. n - 1} : r \in {t \in Threads(m) : t < m}}

\* The threads of softmax, a row each, fill the buffer.
LEMMA RowsWritten ==
    ASSUME NEW m \in Nat, NEW n \in Nat, NEW len, InRows(len, m, n), NEW a
    PROVE  Written(len, SoftmaxWrites(a, m, n))
             = [j \in 1 .. len |->
                   <<"Softmax", At(a, j - 1),
                     SubSeq(a, ((j - 1) \div n) * n + 1, ((j - 1) \div n) * n + n)>>]
  <1> DEFINE v(q, r) == <<"Softmax", At(a, q * n + r), SubSeq(a, q * n + 1, (q + 1) * n)>>
             row(q)  == {<<q * n + i, v(q, i)>> : i \in 0 .. n - 1}
  <1>1. PICK f : f = [p \in (0 .. m - 1) \X (0 .. n - 1) |-> v(p[1], p[2])]
    OBVIOUS
  <1>2. PICK writes :
          writes = UNION {row(r) : r \in {t \in Threads(m) : t < m}}
    OBVIOUS
  <1>3. {t \in Threads(m) : t < m} = 0 .. m - 1
    BY ThreadsCover
  <1> HIDE DEF v
  <1>4. \A q \in 0 .. m - 1, r \in 0 .. n - 1 : f[<<q, r>>] = v(q, r)
    BY <1>1
  <1>5. ASSUME NEW w
        PROVE  w \in writes <=>
            \E q \in 0 .. m - 1, r \in 0 .. n - 1 : w = <<q * n + r, f[<<q, r>>]>>
    <2>1. w \in writes <=> \E q \in 0 .. m - 1 : \E r \in 0 .. n - 1 : w = <<q * n + r, v(q, r)>>
      <3>1. \A q : w \in row(q) <=> \E r \in 0 .. n - 1 : w = <<q * n + r, v(q, r)>>
        OBVIOUS
      <3> HIDE DEF row
      <3>2. w \in writes <=> \E q \in 0 .. m - 1 : w \in row(q)
        BY <1>2, <1>3
      <3>3. QED
        BY <3>1, <3>2, Zenon
    <2>2. QED
      BY <1>4, <2>1, Zenon
  <1>6. Written(len, writes) = [j \in 1 .. len |-> f[<<(j - 1) \div n, (j - 1) % n>>]]
    <2>1. WritesRows(writes, m, n, f)
      BY <1>5, Zenon DEF WritesRows
    <2>2. QED
      BY <2>1, GridWritten
  <1>7. ASSUME NEW j \in 1 .. len
        PROVE  f[<<(j - 1) \div n, (j - 1) % n>>] =
                  <<"Softmax", At(a, j - 1),
                    SubSeq(a, ((j - 1) \div n) * n + 1, ((j - 1) \div n) * n + n)>>
    <2>1. PICK i, q, r : i = j - 1 /\ q = i \div n /\ r = i % n
      OBVIOUS
    <2>2. i \in 0 .. len - 1
      BY <2>1 DEF InRows
    <2>3. q \in 0 .. m - 1 /\ r \in 0 .. n - 1 /\ i = q * n + r
      BY <2>1, <2>2, RowColumnOf
    <2>4. (q + 1) * n = q * n + n
      BY <2>3, NextRow
    <2>5. f[<<q, r>>] = <<"Softmax", At(a, i), SubSeq(a, q * n + 1, q * n + n)>>
      BY <1>4, <2>3, <2>4, Zenon DEF v
    <2>6. QED
      BY <2>1, <2>5, Zenon
  <1>8. QED
    <2>1. writes = SoftmaxWrites(a, m, n)
      BY <1>2, Zenon DEF v, SoftmaxWrites
    <2>2. QED
      BY <1>6, <1>7, <2>1, Zenon

\* softmax_main normalises each row once.
LEMMA SoftmaxShaderIs ==
    ASSUME NEW job, job.opts.rowLen \in Nat \ {0},
           job.len \in Nat, job.len = Len(job.a), Len(job.a) % job.opts.rowLen = 0
    PROVE  LET n == job.opts.rowLen IN
           SoftmaxShader(job) = [j \in 1 .. job.len |->
               <<"Softmax", At(job.a, j - 1),
                 SubSeq(job.a, ((j - 1) \div n) * n + 1, ((j - 1) \div n) * n + n)>>]
  <1> DEFINE n == job.opts.rowLen
             m == Len(job.a) \div n
  <1>1. n \in Nat /\ m \in Nat /\ InRows(job.len, m, n)
    BY ExactDivision, Zenon DEF InRows
  <1>2. SoftmaxShader(job)
          = Written(job.len, SoftmaxWrites(job.a, m, n))
    BY Zenon DEF SoftmaxShader, SoftmaxWrites
  <1> HIDE DEF n, m
  <1>3. SoftmaxShader(job) = [j \in 1 .. job.len |->
                   <<"Softmax", At(job.a, j - 1),
                     SubSeq(job.a, ((j - 1) \div n) * n + 1, ((j - 1) \div n) * n + n)>>]
    <2>1. PICK a, len : a = job.a /\ len = job.len
      OBVIOUS
    <2>2. n \in Nat /\ m \in Nat /\ InRows(len, m, n)
      BY <1>1, <2>1
    <2>3. Written(len, SoftmaxWrites(a, m, n)) = [j \in 1 .. len |->
             <<"Softmax", At(a, j - 1),
               SubSeq(a, ((j - 1) \div n) * n + 1, ((j - 1) \div n) * n + n)>>]
      BY <2>2, RowsWritten
    <2>4. QED
      BY <1>2, <2>1, <2>3, Zenon
  <1>4. QED
    BY <1>1, <1>3, Zenon DEF n

\* numel multiplies the dimensions one by one.
LEMMA NumElSteps ==
    ASSUME NEW n \in Nat, NEW dims \in [1 .. n -> Nat]
    PROVE  \E p : /\ p[0] = 1 /\ NumEl(dims) = p[n]
                  /\ \A k \in 0 .. n - 1 : p[k + 1] = CheckedMul(p[k], dims[k + 1])
  <1> DEFINE V == Nat \cup {Overflow} \cup Int
             F == [p \in (1 .. n) \X V |-> CheckedMul(p[2], dims[p[1]])]
  <1>1. DOMAIN dims = 1 .. n /\ \A j \in 1 .. n : dims[j] \in Nat
    OBVIOUS
  <1>2. 1 \in V
    OBVIOUS
  <1>3. ASSUME NEW x \in V, NEW y \in Nat PROVE CheckedMul(x, y) \in V
    <2>1. x \in Int
      BY DEF Overflow
    <2>2. x * y \in Int /\ Overflow \in Int
      BY <2>1 DEF Overflow
    <2>3. QED
      BY <2>2 DEF CheckedMul
  <1> HIDE DEF V
  <1>4. F \in [(1 .. n) \X V -> V]
    <2>1. \A p \in (1 .. n) \X V : p[1] \in 1 .. n /\ p[2] \in V /\ dims[p[1]] \in Nat
      BY <1>1
    <2> QED BY <1>3, <2>1
  <1>5. PICK it : IsFold(n, V, 1, F, it)
    <2> HIDE DEF F
    <2> QED BY <1>2, <1>4, FoldExists
  <1>5a. it \in [SUBSET (1 .. n) -> V]
    BY <1>5 DEF IsFold
  <1>6. it = [s \in SUBSET (1 .. n) |->
                 IF s = {} THEN 1 ELSE CheckedMul(it[s \ {Max(s)}], dims[Max(s)])]
    <2>1. ASSUME NEW s \in SUBSET (1 .. n), s # {}
          PROVE  it[s] = CheckedMul(it[s \ {Max(s)}], dims[Max(s)])
      <3>1. Max(s) \in 1 .. n
        BY <2>1, MaxIs
      <3>2. it[s \ {Max(s)}] \in V
        BY <1>5a
      <3>3. it[s] = F[<<Max(s), it[s \ {Max(s)}]>>]
        BY <1>5, <2>1 DEF IsFold
      <3> QED BY <3>1, <3>2, <3>3
    <2>2. \A s \in SUBSET (1 .. n) : it[s] =
                 IF s = {} THEN 1 ELSE CheckedMul(it[s \ {Max(s)}], dims[Max(s)])
      BY <1>5, <2>1 DEF IsFold
    <2> QED BY <1>5a, <2>2
  <1> DEFINE c == CHOOSE f : f = [s \in SUBSET (1 .. n) |->
                 IF s = {} THEN 1 ELSE CheckedMul(f[s \ {Max(s)}], dims[Max(s)])]
  <1>7. NumEl(dims) = c[1 .. n]
    BY <1>1, Zenon DEF NumEl, FoldLeft, MapThenFoldSet
  <1>8. c = [s \in SUBSET (1 .. n) |->
                 IF s = {} THEN 1 ELSE CheckedMul(c[s \ {Max(s)}], dims[Max(s)])]
    BY <1>6, Zenon
  <1> HIDE DEF c
  <1>9. PICK p : p = [k \in 0 .. n |-> c[1 .. k]]
    OBVIOUS
  <1>10. p[0] = 1
    <2>1. 1 .. 0 = {} /\ 0 \in 0 .. n
      OBVIOUS
    <2>2. c[{}] = 1
      BY <1>8
    <2>3. QED
      BY <1>9, <2>1, <2>2
  <1>11. NumEl(dims) = p[n]
    BY <1>7, <1>9
  <1>12. ASSUME NEW k \in 0 .. n - 1 PROVE p[k + 1] = CheckedMul(p[k], dims[k + 1])
    <2>1. k \in Nat /\ k + 1 \in 1 .. n /\ 1 .. k + 1 \in SUBSET (1 .. n) /\ 1 .. k + 1 # {}
      BY PrefixOf
    <2>2. c[1 .. k + 1] = CheckedMul(c[(1 .. k + 1) \ {Max(1 .. k + 1)}], dims[Max(1 .. k + 1)])
      BY <1>8, <2>1
    <2>3. c[1 .. k + 1] = CheckedMul(c[1 .. k], dims[k + 1])
      BY <2>1, <2>2, LastOf
    <2>4. k \in 0 .. n /\ k + 1 \in 0 .. n
      OBVIOUS
    <2>5. QED
      BY <1>9, <2>3, <2>4
  <1>13. QED
    BY <1>10, <1>11, <1>12

\* A product that did not overflow is one of factors that did not.
LEMMA CheckedMulIs ==
    ASSUME NEW a, NEW b \in Nat, CheckedMul(a, b) # Overflow
    PROVE  a # Overflow /\ CheckedMul(a, b) = a * b /\ ~(a * b > UsizeMax)
  BY DEF CheckedMul

\* numel of two dimensions is rows of columns.
LEMMA NumElOfTwo ==
    ASSUME NEW m \in Nat, NEW n \in Nat, NumEl(<<m, n>>) # Overflow
    PROVE  InRows(NumEl(<<m, n>>), m, n)
  <1>1. PICK two, dims : two = 2 /\ dims = <<m, n>>
    OBVIOUS
  <1>2. two \in Nat /\ dims \in [1 .. two -> Nat] /\ dims[1] = m /\ dims[2] = n
    BY <1>1
  <1>3. PICK p : /\ p[0] = 1 /\ NumEl(dims) = p[two]
                 /\ \A k \in 0 .. two - 1 : p[k + 1] = CheckedMul(p[k], dims[k + 1])
    BY <1>2, NumElSteps
  <1>4. p[1] = CheckedMul(1, m) /\ p[2] = CheckedMul(p[1], n)
    <2>1. 0 \in 0 .. two - 1 /\ 1 \in 0 .. two - 1 /\ 0 + 1 = 1 /\ 1 + 1 = 2
      BY <1>1
    <2>2. QED
      BY <1>2, <1>3, <2>1
  <1>5. p[1] # Overflow /\ p[2] = p[1] * n
    BY <1>1, <1>3, <1>4, CheckedMulIs
  <1>6. p[1] = 1 * m
    BY <1>4, <1>5, CheckedMulIs
  <1>7. 1 * m = m
    OBVIOUS
  <1>8. QED
    BY <1>1, <1>3, <1>5, <1>6, <1>7 DEF InRows

\* A buffer that fits its shape has as many elements.
LEMMA OpFitsIs ==
    ASSUME NEW len, NEW dims, OpFits(len, dims) = None
    PROVE  NumEl(dims) # Overflow /\ len = NumEl(dims)
  BY DEF OpFits, Require, None

\* matmul refuses, or computes a dot product for each row and column.
LEMMA MatMulIs ==
    ASSUME NEW job, job.op = "matmul", job.ad \in [1 .. 2 -> Nat], job.bd \in [1 .. 2 -> Nat]
    PROVE  /\ Naive(job).err # None => Naive(job) = Fails(Naive(job).err)
           /\ Naive(job).err = None =>
                 /\ Naive(job) = Writes([j \in 1 .. job.len |->
                                    Dot(job, (j - 1) \div job.bd[2], (j - 1) % job.bd[2])])
                 /\ InRows(job.len, job.ad[1], job.bd[2])
  <1> DEFINE m == job.ad[1]
             n == job.bd[2]
  <1>1. PICK out : out = [j \in 1 .. job.len |-> Dot(job, (j - 1) \div n, (j - 1) % n)]
    OBVIOUS
  <1>2. PICK c1, c2, c3, c4 :
          /\ c1 = Require(job.ad[2] = job.bd[1], "Op.ShapeMismatch")
          /\ c2 = OpFits(Len(job.a), job.ad) /\ c3 = OpFits(Len(job.b), job.bd)
          /\ c4 = OpFits(job.len, <<m, n>>)
    OBVIOUS
  <1>3. Naive(job) = Answer(<<c1, c2, c3, c4>>, out)
    <2>1. Naive(job) = MatMul(job.a, job.ad, job.b, job.bd, job.len)
      BY DEF Naive
    <2>2. QED
      BY <1>1, <1>2, <2>1, Zenon DEF Fill, MatMul, Dot
  <1>4. ASSUME FirstError(<<c1, c2, c3, c4>>) = None PROVE InRows(job.len, m, n)
    <2>1. PICK k, checks : k = 4 /\ checks = <<c1, c2, c3, c4>>
      OBVIOUS
    <2>2. k \in Nat /\ DOMAIN checks = 1 .. k /\ Len(checks) = k /\ FirstError(checks) = None
      BY <1>4, <2>1
    <2>3. \A x \in 1 .. k : checks[x] = None
      BY <2>2, AllPassed
    <2>4. c4 = None
      BY <2>1, <2>3
    <2>5. NumEl(<<m, n>>) # Overflow /\ job.len = NumEl(<<m, n>>)
      BY <1>2, <2>4, OpFitsIs
    <2>6. m \in Nat /\ n \in Nat
      OBVIOUS
    <2>7. QED
      BY <2>5, <2>6, NumElOfTwo
  <1>5. QED
    BY <1>1, <1>3, <1>4, AnswerIs

\* Each tile's threads write an element of the output each.
LEMMA MatMulShaderIs ==
    ASSUME NEW job, job.ad[1] \in Nat, job.bd[2] \in Nat, InRows(job.len, job.ad[1], job.bd[2])
    PROVE  MatMulShader(job) = [j \in 1 .. job.len |->
                                   Dot(job, (j - 1) \div job.bd[2], (j - 1) % job.bd[2])]
  <1> DEFINE m == job.ad[1]
             n == job.bd[2]
             grid == {u \in Tiles(n) \X Tiles(m) : u[2] < m /\ u[1] < n}
  <1>1. PICK f : f = [p \in (0 .. m - 1) \X (0 .. n - 1) |-> Dot(job, p[1], p[2])]
    OBVIOUS
  <1>2. PICK writes : writes = {<<t[2] * n + t[1], Dot(job, t[2], t[1])>> : t \in grid}
    OBVIOUS
  <1>3. MatMulShader(job) = Written(job.len, writes)
    BY <1>2, Zenon DEF MatMulShader
  <1>4. m \in Nat /\ n \in Nat /\ InRows(job.len, m, n)
    OBVIOUS
  <1>5. \A t : t \in grid <=> \E r \in 0 .. n - 1, q \in 0 .. m - 1 : t = <<r, q>>
    <2>1. {t \in Tiles(n) : t < n} = 0 .. n - 1 /\ {t \in Tiles(m) : t < m} = 0 .. m - 1
      BY <1>4, TilesCover
    <2>2. \A t : t \in grid <=> \E r \in Tiles(n), q \in Tiles(m) : t = <<r, q>> /\ q < m /\ r < n
      OBVIOUS
    <2>3. \A r : r \in 0 .. n - 1 <=> r \in Tiles(n) /\ r < n
      BY <2>1
    <2>4. \A q : q \in 0 .. m - 1 <=> q \in Tiles(m) /\ q < m
      BY <2>1
    <2> HIDE DEF grid, m, n
    <2>5. QED
      BY <2>2, <2>3, <2>4, Zenon
  <1> HIDE DEF grid, m, n
  <1>6. \A q \in 0 .. m - 1, r \in 0 .. n - 1 : f[<<q, r>>] = Dot(job, q, r)
    BY <1>1
  <1>7. WritesRows(writes, m, n, f)
    <2>1. ASSUME NEW w
          PROVE  w \in writes <=> \E q \in 0 .. m - 1, r \in 0 .. n - 1 : w = <<q * n + r, f[<<q, r>>]>>
      <3>1. w \in writes <=> \E t \in grid : w = <<t[2] * n + t[1], Dot(job, t[2], t[1])>>
        BY <1>2
      <3>2. ASSUME w \in writes
            PROVE  \E q \in 0 .. m - 1, r \in 0 .. n - 1 : w = <<q * n + r, f[<<q, r>>]>>
        <4>1. PICK t \in grid : w = <<t[2] * n + t[1], Dot(job, t[2], t[1])>>
          BY <3>1, <3>2
        <4>2. PICK r \in 0 .. n - 1, q \in 0 .. m - 1 : t = <<r, q>>
          BY <1>5
        <4>3. t[1] = r /\ t[2] = q
          BY <4>2
        <4>4. f[<<q, r>>] = Dot(job, q, r)
          BY <1>6
        <4>5. w = <<q * n + r, f[<<q, r>>]>>
          BY <4>1, <4>3, <4>4, Zenon
        <4>6. QED
          BY <4>5
      <3>3. ASSUME NEW q \in 0 .. m - 1, NEW r \in 0 .. n - 1, w = <<q * n + r, f[<<q, r>>]>>
            PROVE  w \in writes
        <4>1. PICK t : t = <<r, q>>
          OBVIOUS
        <4>2. t \in grid
          BY <1>5, <4>1, Zenon
        <4>3. t[1] = r /\ t[2] = q
          BY <4>1
        <4>4. w = <<t[2] * n + t[1], Dot(job, t[2], t[1])>>
          BY <1>6, <3>3, <4>3, Zenon
        <4>5. QED
          BY <3>1, <4>2, <4>4, Zenon
      <3>4. QED
        BY <3>2, <3>3, Zenon
    <2>2. QED
      BY <2>1, Zenon DEF WritesRows
  <1>8. PICK len : len = job.len
    OBVIOUS
  <1>9. Written(len, writes) = [j \in 1 .. len |-> f[<<(j - 1) \div n, (j - 1) % n>>]]
    <2>1. PICK x, y : x = m /\ y = n
      OBVIOUS
    <2>2. x \in Nat /\ y \in Nat /\ InRows(len, x, y) /\ WritesRows(writes, x, y, f)
      BY <1>4, <1>7, <1>8, <2>1, Zenon
    <2>3. Written(len, writes) = [j \in 1 .. len |-> f[<<(j - 1) \div y, (j - 1) % y>>]]
      BY <2>2, GridWritten
    <2>4. QED
      BY <2>1, <2>3, Zenon
  <1>10. ASSUME NEW j \in 1 .. len
         PROVE  f[<<(j - 1) \div n, (j - 1) % n>>] = Dot(job, (j - 1) \div n, (j - 1) % n)
    <2>1. PICK i, q, r : i = j - 1 /\ q = i \div n /\ r = i % n
      OBVIOUS
    <2>2. i \in 0 .. len - 1
      BY <1>4, <1>8, <2>1 DEF InRows
    <2>3. q \in 0 .. m - 1 /\ r \in 0 .. n - 1
      BY <1>4, <1>8, <2>1, <2>2, RowColumnOf
    <2>4. QED
      BY <1>6, <2>1, <2>3, Zenon
  <1>11. QED
    BY <1>3, <1>8, <1>9, <1>10, Zenon DEF n

-----------------------------------------------------------------------------
(* conv2d *)

\* Stride d of a shape multiplies the m dimensions to its right, modulo M.
StrideOf(dims, d, m, M, p) ==
    /\ p[0] = 1 /\ Strides(dims)[d] = p[m]
    /\ \A k \in 0 .. m - 1 : p[k + 1] = (p[k] * dims[d + k + 1]) % M

HasStride(dims, d, m, M) == \E p : StrideOf(dims, d, m, M, p)

\* The strides of a shape multiply its dimensions from the right, modulo 2^Bits.
LEMMA StrideSteps ==
    ASSUME NEW n \in Nat, NEW dims \in Seq(Nat), n = Len(dims), NEW M, M = 2^Bits,
           M \in Nat \ {0}, NEW d \in 1 .. n, NEW m, m = n - d
    PROVE  HasStride(dims, d, m, M)
  <1>1. DOMAIN dims = 1 .. n /\ dims \in [1 .. n -> Nat] /\ d \in Nat
    OBVIOUS
  <1>4. PICK t : t = SubSeq(dims, d + 1, n)
    OBVIOUS
  <1>5. /\ m \in Nat /\ DOMAIN t = 1 .. m /\ Len(t) = m
        /\ \A k \in 1 .. m : t[k] = dims[d + k] /\ t[k] \in Nat
    <2>1. /\ t \in Seq(Nat) /\ m \in Nat /\ Len(t) = m
          /\ \A k \in 1 .. m : t[k] = dims[(d + 1) + k - 1]
      BY <1>1, <1>4
    <2>2. \A k \in 1 .. m : (d + 1) + k - 1 = d + k
      BY <1>1, <1>4
    <2>3. DOMAIN t = 1 .. m /\ \A k \in 1 .. m : t[k] \in Nat
      BY <2>1
    <2>4. QED
      BY <2>1, <2>2, <2>3, Zenon
  <1> DEFINE F == [p \in (1 .. m) \X Nat |-> (p[2] * t[p[1]]) % M]
  <1>6. ASSUME NEW a \in Nat, NEW b \in Nat PROVE (a * b) % M \in Nat
    <2>1. PICK x : x = a * b
      OBVIOUS
    <2>2. x \in Nat
      BY <2>1
    <2>3. x % M \in Nat
      BY <2>2
    <2>4. QED
      BY <2>1, <2>3
  <1>7. F \in [(1 .. m) \X Nat -> Nat]
    <2>1. \A p \in (1 .. m) \X Nat : p[1] \in 1 .. m /\ p[2] \in Nat /\ t[p[1]] \in Nat
      BY <1>5
    <2> QED BY <1>6, <2>1
  <1>8. PICK it : IsFold(m, Nat, 1, F, it)
    <2> HIDE DEF F
    <2>1. 1 \in Nat
      OBVIOUS
    <2> QED BY <1>5, <1>7, <2>1, FoldExists
  <1>9. it \in [SUBSET (1 .. m) -> Nat]
    BY <1>8 DEF IsFold
  <1>10. it = [s \in SUBSET (1 .. m) |->
                 IF s = {} THEN 1
                 ELSE (it[s \ {Max(s)}] * SubSeq(dims, d + 1, Len(dims))[Max(s)]) % 2^Bits]
    <2>1. ASSUME NEW s \in SUBSET (1 .. m), s # {}
          PROVE  it[s] = (it[s \ {Max(s)}] * t[Max(s)]) % M
      <3>1. Max(s) \in 1 .. m
        BY <1>5, <2>1, MaxIs
      <3>2. it[s \ {Max(s)}] \in Nat
        BY <1>9
      <3>3. it[s] = F[<<Max(s), it[s \ {Max(s)}]>>]
        BY <1>8, <2>1 DEF IsFold
      <3> QED BY <3>1, <3>2, <3>3
    <2>2. \A s \in SUBSET (1 .. m) : it[s] =
                 IF s = {} THEN 1 ELSE (it[s \ {Max(s)}] * t[Max(s)]) % M
      BY <1>8, <2>1 DEF IsFold
    <2> QED BY <1>4, <1>9, <2>2
  <1> DEFINE c == CHOOSE f : f = [s \in SUBSET (1 .. m) |->
                 IF s = {} THEN 1
                 ELSE (f[s \ {Max(s)}] * SubSeq(dims, d + 1, Len(dims))[Max(s)]) % 2^Bits]
  <1>11. Strides(dims)[d] = c[1 .. m]
    <2>1. d \in DOMAIN dims
      BY <1>1
    <2>2. DOMAIN SubSeq(dims, d + 1, Len(dims)) = 1 .. m
      BY <1>4, <1>5
    <2>3. QED
      BY <2>1, <2>2, Zenon DEF Strides, FoldLeft, MapThenFoldSet
  <1>11a. c = [s \in SUBSET (1 .. m) |->
                 IF s = {} THEN 1
                 ELSE (c[s \ {Max(s)}] * SubSeq(dims, d + 1, Len(dims))[Max(s)]) % 2^Bits]
    BY <1>10, Zenon
  <1> HIDE DEF c
  <1>12. c = [s \in SUBSET (1 .. m) |->
                 IF s = {} THEN 1 ELSE (c[s \ {Max(s)}] * t[Max(s)]) % M]
    BY <1>4, <1>11a
  <1>13. PICK p : p = [k \in 0 .. m |-> c[1 .. k]]
    OBVIOUS
  <1>14. p[0] = 1
    <2>1. 1 .. 0 = {} /\ 0 \in 0 .. m
      BY <1>5
    <2>2. c[{}] = 1
      BY <1>12
    <2>3. QED
      BY <1>13, <2>1, <2>2
  <1>15. Strides(dims)[d] = p[m]
    BY <1>5, <1>11, <1>13
  <1>16. ASSUME NEW k \in 0 .. m - 1 PROVE p[k + 1] = (p[k] * dims[d + k + 1]) % M
    <2>1. k \in Nat /\ k + 1 \in 1 .. m /\ 1 .. k + 1 \in SUBSET (1 .. m) /\ 1 .. k + 1 # {}
      BY <1>5, PrefixOf
    <2>2. c[1 .. k + 1] = (c[(1 .. k + 1) \ {Max(1 .. k + 1)}] * t[Max(1 .. k + 1)]) % M
      BY <1>12, <2>1
    <2>3. c[1 .. k + 1] = (c[1 .. k] * t[k + 1]) % M
      BY <2>1, <2>2, LastOf
    <2>4. k \in 0 .. m /\ k + 1 \in 0 .. m
      BY <1>5
    <2>5. t[k + 1] = dims[d + k + 1]
      <3>1. t[k + 1] = dims[d + (k + 1)] /\ d + (k + 1) = d + k + 1
        BY <1>1, <1>5, <2>1
      <3>2. QED
        BY <3>1
    <2>6. QED
      BY <1>13, <2>3, <2>4, <2>5
  <1>17. StrideOf(dims, d, m, M, p)
    BY <1>14, <1>15, <1>16 DEF StrideOf
  <1>18. QED
    BY <1>17, Zenon DEF HasStride

\* A power of two is not zero.
LEMMA PowerPositive ==
    ASSUME NEW a \in Nat
    PROVE  2^a \in Nat \ {0}
  <1> DEFINE A == 1 .. a
  <1>1. IsFiniteSet(A) /\ Cardinality(A) = a
    <2>1. 1 \in Int /\ a \in Int /\ 1 <= a + 1
      OBVIOUS
    <2>2. IsFiniteSet(A) /\ Cardinality(A) = IF 1 > a THEN 0 ELSE a - 1 + 1
      BY <2>1, FS_Interval, Zenon
    <2>3. QED
      BY <2>2
  <1> HIDE DEF A
  <1>2. IsFiniteSet(SUBSET A) /\ Cardinality(SUBSET A) = 2^a
    BY <1>1, FS_SUBSET, Zenon
  <1>3. SUBSET A # {}
    OBVIOUS
  <1>4. Cardinality(SUBSET A) \in Nat /\ Cardinality(SUBSET A) # 0
    BY <1>2, <1>3, FS_CardinalityType, FS_EmptySet
  <1>5. QED
    BY <1>2, <1>4

\* What is below the modulus is its own remainder.
LEMMA RemainderOf ==
    ASSUME NEW x \in Nat, NEW b \in Nat, x < b PROVE x % b = x
  OBVIOUS

\* A row of a block, and a block of rows.
LEMMA DivOfMod ==
    ASSUME NEW p \in Nat \ {0}, NEW q \in Nat \ {0}, NEW P, InRows(P, p, q), NEW i \in Nat
    PROVE  (i % P) \div q = (i \div q) % p
  <1>1. P \in Nat \ {0}
    BY DEF InRows
  <1>2. PICK r, e : r = i % P /\ e = i \div P
    OBVIOUS
  <1>3. e \in Nat /\ r \in 0 .. P - 1 /\ i = e * P + r
    BY <1>1, <1>2
  <1>4. PICK s, u : s = r \div q /\ u = r % q
    OBVIOUS
  <1>5. s \in 0 .. p - 1 /\ u \in 0 .. q - 1 /\ r = s * q + u
    BY <1>3, <1>4, RowColumnOf
  <1>6. PICK g : g = e * p + s
    OBVIOUS
  <1>7. g \in Nat
    BY <1>3, <1>5, <1>6
  <1>8. i = g * q + u
    <2>1. PICK x, y, z : x = e * P /\ y = s * q /\ z = e * p
      OBVIOUS
    <2>2. x = z * q /\ g = z + s /\ z \in Nat
      BY <1>3, <1>5, <1>6, <2>1 DEF InRows
    <2>3. (z + s) * q = z * q + s * q
      BY <1>5, <2>2
    <2>4. g * q = x + y
      BY <2>1, <2>2, <2>3
    <2>5. x \in Nat /\ y \in Nat
      BY <1>1, <1>3, <1>5, <2>1
    <2>6. QED
      BY <1>3, <1>5, <2>1, <2>4, <2>5
  <1>9. i \div q = g
    BY <1>5, <1>7, <1>8, RowAndColumn
  <1>10. g % p = s
    BY <1>3, <1>5, <1>6, RowAndColumn
  <1>11. QED
    BY <1>2, <1>4, <1>9, <1>10

\* numel of four dimensions, each sub-product of which is below the modulus too.
LEMMA NumElOfFour ==
    ASSUME NEW a \in Nat, NEW b \in Nat, NEW c \in Nat, NEW d \in Nat,
           NumEl(<<a, b, c, d>>) # Overflow
    PROVE  NumEl(<<a, b, c, d>>) = ((a * b) * c) * d /\ ~(((a * b) * c) * d > UsizeMax)
  <1>1. PICK four, dims : four = 4 /\ dims = <<a, b, c, d>>
    OBVIOUS
  <1>2. /\ four \in Nat /\ dims \in [1 .. four -> Nat]
        /\ dims[1] = a /\ dims[2] = b /\ dims[3] = c /\ dims[4] = d
    BY <1>1
  <1>3. PICK p : /\ p[0] = 1 /\ NumEl(dims) = p[four]
                 /\ \A k \in 0 .. four - 1 : p[k + 1] = CheckedMul(p[k], dims[k + 1])
    BY <1>2, NumElSteps
  <1>4. /\ p[1] = CheckedMul(1, a) /\ p[2] = CheckedMul(p[1], b)
        /\ p[3] = CheckedMul(p[2], c) /\ p[4] = CheckedMul(p[3], d)
    <2>1. /\ 0 \in 0 .. four - 1 /\ 1 \in 0 .. four - 1 /\ 2 \in 0 .. four - 1
          /\ 3 \in 0 .. four - 1 /\ 0 + 1 = 1 /\ 1 + 1 = 2 /\ 2 + 1 = 3 /\ 3 + 1 = 4
      BY <1>1
    <2>2. QED
      BY <1>2, <1>3, <2>1
  <1>5. p[4] # Overflow /\ NumEl(<<a, b, c, d>>) = p[4]
    BY <1>1, <1>3
  <1>6. p[3] # Overflow /\ p[4] = p[3] * d /\ ~(p[3] * d > UsizeMax)
    BY <1>4, <1>5, CheckedMulIs
  <1>7. p[2] # Overflow /\ p[3] = p[2] * c
    BY <1>4, <1>6, CheckedMulIs
  <1>8. p[1] # Overflow /\ p[2] = p[1] * b
    BY <1>4, <1>7, CheckedMulIs
  <1>9. p[1] = 1 * a
    BY <1>4, <1>8, CheckedMulIs
  <1>10. 1 * a = a
    OBVIOUS
  <1>11. QED
    BY <1>5, <1>6, <1>7, <1>8, <1>9, <1>10, Zenon

\* The products to the right are at most the whole product.
LEMMA SubProducts ==
    ASSUME NEW a \in Nat, NEW b \in Nat, NEW c \in Nat, NEW d \in Nat,
           NEW cd, NEW bcd, NEW all, InRows(cd, c, d), InRows(bcd, b, cd), InRows(all, a, bcd),
           all > 0
    PROVE  /\ a > 0 /\ b > 0 /\ c > 0 /\ d > 0
           /\ cd \in Nat /\ bcd \in Nat /\ cd > 0 /\ bcd > 0
           /\ d <= all /\ c <= all /\ b <= all /\ cd <= all /\ bcd <= all /\ b * c \in Nat /\ b * c <= all
           /\ (b * c) * d = bcd
  <1>0. cd = c * d /\ bcd = b * cd /\ all = a * bcd
    BY DEF InRows
  <1>1. ASSUME NEW x \in Nat, NEW y \in Nat, NEW z, z = x * y, z > 0
        PROVE  z \in Nat /\ x > 0 /\ y > 0 /\ x <= z /\ y <= z
    <2>1. x # 0 /\ y # 0
      <3>1. 0 * y = 0 /\ x * 0 = 0
        OBVIOUS
      <3>2. QED
        BY <1>1, <3>1
    <2>2. PICK u, v : u = x - 1 /\ v = y - 1
      OBVIOUS
    <2>3. u \in Nat /\ v \in Nat /\ x = u + 1 /\ y = v + 1
      BY <2>1, <2>2
    <2>4. z = u * y + y /\ z = x * v + x /\ u * y \in Nat /\ x * v \in Nat
      BY <1>1, <2>3
    <2>5. QED
      BY <2>1, <2>3, <2>4
  <1>2. cd \in Nat /\ bcd \in Nat
    BY <1>0
  <1>3. a > 0 /\ bcd > 0 /\ bcd <= all /\ all \in Nat
    BY <1>0, <1>1, <1>2
  <1>4. b > 0 /\ cd > 0 /\ b <= bcd /\ cd <= bcd
    BY <1>0, <1>1, <1>2, <1>3
  <1>5. c > 0 /\ d > 0 /\ c <= cd /\ d <= cd
    BY <1>0, <1>1, <1>2, <1>4
  <1>6. PICK bc : bc = b * c
    OBVIOUS
  <1>7. bc \in Nat /\ bc * d = bcd
    BY <1>0, <1>6
  <1>8. bc <= bcd
    BY <1>1, <1>3, <1>7
  <1>9. QED
    BY <1>2, <1>3, <1>4, <1>5, <1>6, <1>7, <1>8

\* A stride of four dimensions that are not too many for a usize is exact.
LEMMA StridesOfFour ==
    ASSUME NEW a \in Nat, NEW b \in Nat, NEW c \in Nat, NEW d \in Nat,
           NEW cd, NEW bcd, NEW all, InRows(cd, c, d), InRows(bcd, b, cd), InRows(all, a, bcd),
           all > 0, all <= UsizeMax
    PROVE  LET st == Strides(<<a, b, c, d>>)
           IN  st[1] = bcd /\ st[2] = cd /\ st[3] = d /\ st[4] = 1
  <1>1. /\ a > 0 /\ b > 0 /\ c > 0 /\ d > 0
        /\ cd \in Nat /\ bcd \in Nat /\ cd > 0 /\ bcd > 0
        /\ d <= all /\ c <= all /\ b <= all /\ cd <= all /\ bcd <= all /\ b * c \in Nat /\ b * c <= all
        /\ (b * c) * d = bcd
    BY SubProducts
  <1>2. PICK M : M = 2^Bits
    OBVIOUS
  <1>3. M \in Nat \ {0} /\ UsizeMax = M - 1
    BY <1>2, PowerPositive, JobsAssumption DEF UsizeMax
  <1>4. all \in Nat /\ all < M
    <2>1. all \in Nat
      BY <1>1 DEF InRows
    <2>2. QED
      BY <1>3, <2>1
  <1>5. PICK n, dims : n = 4 /\ dims = <<a, b, c, d>>
    OBVIOUS
  <1>6. /\ n \in Nat /\ dims \in Seq(Nat) /\ n = Len(dims)
        /\ dims[2] = b /\ dims[3] = c /\ dims[4] = d
    BY <1>5
  <1>7. ASSUME NEW x \in Nat, x <= all PROVE x % M = x
    <2>1. x < M
      BY <1>3, <1>4, <1>7
    <2>2. QED
      BY <1>3, <2>1, RemainderOf
  <1>8. ASSUME NEW e \in 1 .. 4, NEW m, m = 4 - e
        PROVE  HasStride(dims, e, m, M)
    BY <1>2, <1>3, <1>5, <1>6, <1>8, StrideSteps
  <1>9. Strides(dims)[4] = 1
    <2>1. PICK m, e : m = 0 /\ e = 4
      OBVIOUS
    <2>2. PICK p : p[0] = 1 /\ Strides(dims)[e] = p[m]
      BY <1>8, <2>1 DEF HasStride, StrideOf
    <2>3. QED
      BY <2>1, <2>2
  <1>10. Strides(dims)[3] = d
    <2>1. PICK m, e : m = 1 /\ e = 3
      OBVIOUS
    <2>2. PICK p : /\ p[0] = 1 /\ Strides(dims)[e] = p[m]
                   /\ \A k \in 0 .. m - 1 : p[k + 1] = (p[k] * dims[e + k + 1]) % M
      BY <1>8, <2>1 DEF HasStride, StrideOf
    <2>3. 0 \in 0 .. m - 1 /\ 0 + 1 = 1 /\ e + 0 + 1 = 4
      BY <2>1
    <2>4. p[1] = (p[0] * dims[4]) % M
      BY <2>2, <2>3
    <2>5. p[1] = (1 * d) % M /\ 1 * d = d
      BY <1>6, <2>2, <2>4
    <2>6. d % M = d
      BY <1>1, <1>7
    <2>7. QED
      BY <2>1, <2>2, <2>5, <2>6, Zenon
  <1>11. Strides(dims)[2] = cd
    <2>1. PICK m, e : m = 2 /\ e = 2
      OBVIOUS
    <2>2. PICK p : /\ p[0] = 1 /\ Strides(dims)[e] = p[m]
                   /\ \A k \in 0 .. m - 1 : p[k + 1] = (p[k] * dims[e + k + 1]) % M
      BY <1>8, <2>1 DEF HasStride, StrideOf
    <2>3. /\ 0 \in 0 .. m - 1 /\ 0 + 1 = 1 /\ e + 0 + 1 = 3
          /\ 1 \in 0 .. m - 1 /\ 1 + 1 = 2 /\ e + 1 + 1 = 4
      BY <2>1
    <2>4. p[1] = (p[0] * dims[3]) % M /\ p[2] = (p[1] * dims[4]) % M
      BY <2>2, <2>3
    <2>5. p[1] = (1 * c) % M /\ 1 * c = c
      BY <1>6, <2>2, <2>4
    <2>6. c % M = c
      BY <1>1, <1>7
    <2>7. p[2] = (c * d) % M
      BY <1>6, <2>4, <2>5, <2>6, Zenon
    <2>8. c * d = cd
      BY DEF InRows
    <2>9. cd % M = cd
      BY <1>1, <1>7
    <2>10. QED
      BY <2>1, <2>2, <2>7, <2>8, <2>9, Zenon
  <1>12. Strides(dims)[1] = bcd
    <2>1. PICK m, e : m = 3 /\ e = 1
      OBVIOUS
    <2>2. PICK p : /\ p[0] = 1 /\ Strides(dims)[e] = p[m]
                   /\ \A k \in 0 .. m - 1 : p[k + 1] = (p[k] * dims[e + k + 1]) % M
      BY <1>8, <2>1 DEF HasStride, StrideOf
    <2>3. /\ 0 \in 0 .. m - 1 /\ 0 + 1 = 1 /\ e + 0 + 1 = 2
          /\ 1 \in 0 .. m - 1 /\ 1 + 1 = 2 /\ e + 1 + 1 = 3
          /\ 2 \in 0 .. m - 1 /\ 2 + 1 = 3 /\ e + 2 + 1 = 4
      BY <2>1
    <2>4. /\ p[1] = (p[0] * dims[2]) % M /\ p[2] = (p[1] * dims[3]) % M
          /\ p[3] = (p[2] * dims[4]) % M
      BY <2>2, <2>3
    <2>5. p[1] = (1 * b) % M /\ 1 * b = b
      BY <1>6, <2>2, <2>4
    <2>6. b % M = b
      BY <1>1, <1>7
    <2>7. p[2] = (b * c) % M
      BY <1>6, <2>4, <2>5, <2>6, Zenon
    <2>8. (b * c) % M = b * c
      BY <1>1, <1>7
    <2>9. p[3] = ((b * c) * d) % M
      BY <1>6, <2>4, <2>7, <2>8, Zenon
    <2>10. (b * c) * d = bcd /\ bcd % M = bcd
      BY <1>1, <1>7
    <2>11. QED
      BY <2>1, <2>2, <2>9, <2>10, Zenon
  <1>13. QED
    BY <1>5, <1>9, <1>10, <1>11, <1>12, Zenon

\* No dimension of a shape with elements is zero.
LEMMA FactorsPositive ==
    ASSUME NEW a \in Nat, NEW b \in Nat, NEW c \in Nat, NEW d \in Nat,
           NEW cd, NEW bcd, NEW all, InRows(cd, c, d), InRows(bcd, b, cd), InRows(all, a, bcd),
           all > 0
    PROVE  /\ b \in Nat \ {0} /\ c \in Nat \ {0} /\ d \in Nat \ {0} /\ cd \in Nat \ {0}
           /\ bcd \in Nat \ {0}
  <1>1. /\ a > 0 /\ b > 0 /\ c > 0 /\ d > 0
        /\ cd \in Nat /\ bcd \in Nat /\ cd > 0 /\ bcd > 0
        /\ d <= all /\ c <= all /\ b <= all /\ cd <= all /\ bcd <= all /\ b * c \in Nat /\ b * c <= all
        /\ (b * c) * d = bcd
    BY SubProducts
  <1>2. QED
    BY <1>1

\* The coordinates of an index of four dimensions.
IsUnravelled(i, dims, b, c, d, cd, bcd) ==
    LET o == UnravelIndex(i, dims)
    IN  /\ o[1] = i \div bcd /\ o[2] = (i \div cd) % b
        /\ o[3] = (i \div d) % c /\ o[4] = i % d

\* The coordinates of an index are quotients and remainders by products of the
\* dimensions to the right, as conv2d's shader computes them.
LEMMA UnravelOfFour ==
    ASSUME NEW a \in Nat, NEW b \in Nat, NEW c \in Nat, NEW d \in Nat,
           NEW cd, NEW bcd, NEW all, InRows(cd, c, d), InRows(bcd, b, cd), InRows(all, a, bcd),
           all > 0, all <= UsizeMax, NEW i \in Nat
    PROVE  IsUnravelled(i, <<a, b, c, d>>, b, c, d, cd, bcd)
  <1>1. /\ b \in Nat \ {0} /\ c \in Nat \ {0} /\ d \in Nat \ {0} /\ cd \in Nat \ {0}
    BY FactorsPositive
  <1>2. PICK dims, st, o : /\ dims = <<a, b, c, d>> /\ st = Strides(dims)
                           /\ o = UnravelIndex(i, dims)
    OBVIOUS
  <1>3. st[1] = bcd /\ st[2] = cd /\ st[3] = d /\ st[4] = 1
    BY <1>2, StridesOfFour
  <1>4. o = [k \in DOMAIN dims |-> (IF k = 1 THEN i ELSE i % st[k - 1]) \div st[k]]
    BY <1>2, Zenon DEF UnravelIndex
  <1>5. /\ o[1] = i \div st[1] /\ o[2] = (i % st[1]) \div st[2]
        /\ o[3] = (i % st[2]) \div st[3] /\ o[4] = (i % st[3]) \div st[4]
    <2>1. DOMAIN dims = 1 .. 4
      BY <1>2
    <2>2. QED
      BY <1>4, <2>1
  <1>6. (i % bcd) \div cd = (i \div cd) % b
    BY <1>1, DivOfMod
  <1>7. (i % cd) \div d = (i \div d) % c
    BY <1>1, DivOfMod
  <1>8. (i % d) \div 1 = i % d
    <2>1. PICK r : r = i % d
      OBVIOUS
    <2>2. r \in Nat
      BY <1>1, <2>1
    <2>3. r \div 1 = r
      BY <2>2
    <2>4. QED
      BY <2>1, <2>3
  <1>9. QED
    BY <1>2, <1>3, <1>5, <1>6, <1>7, <1>8, Zenon DEF IsUnravelled

\* The numel of four dimensions in rows of rows of rows.
LEMMA FourInRows ==
    ASSUME NEW a \in Nat, NEW b \in Nat, NEW c \in Nat, NEW d \in Nat, NEW cd, NEW bcd, NEW all,
           InRows(cd, c, d), InRows(bcd, b, cd), all = NumEl(<<a, b, c, d>>), all # Overflow
    PROVE  InRows(all, a, bcd) /\ all \in Nat /\ all <= UsizeMax
  <1>2. all = ((a * b) * c) * d /\ ~(((a * b) * c) * d > UsizeMax)
    BY NumElOfFour
  <1>3. PICK ab, abc : ab = a * b /\ abc = ab * c
    OBVIOUS
  <1>4. ab \in Nat /\ abc \in Nat /\ all = abc * d /\ all \in Nat
    BY <1>2, <1>3
  <1>5. UsizeMax \in Nat
    <2>1. PICK M : M = 2^Bits
      OBVIOUS
    <2>2. M \in Nat \ {0} /\ UsizeMax = M - 1
      BY <2>1, PowerPositive, JobsAssumption DEF UsizeMax
    <2>3. QED
      BY <2>2
  <1>6. ~(all > UsizeMax)
    BY <1>2, Zenon
  <1>7. all <= UsizeMax
    BY <1>4, <1>5, <1>6
  <1>8. all = a * (b * (c * d))
    <2>1. ab * c = a * (b * c)
      BY <1>3
    <2>2. PICK bc : bc = b * c
      OBVIOUS
    <2>3. bc \in Nat /\ abc = a * bc
      BY <1>3, <2>1, <2>2
    <2>4. (a * bc) * d = a * (bc * d)
      BY <2>3
    <2>5. (b * c) * d = b * (c * d)
      OBVIOUS
    <2>6. QED
      BY <1>4, <2>2, <2>3, <2>4, <2>5, Zenon
  <1>9. QED
    BY <1>4, <1>7, <1>8, Zenon DEF InRows

-----------------------------------------------------------------------------

\* One output element of conv2d.
ConvTerm(job, n, o, y, x) ==
    LET taps == Taps(job.ad[2], <<job.bd[3], job.bd[4]>>, y, x, job.opts.strides,
                     job.opts.padding, job.ad)
    IN  <<"Sum", [j \in DOMAIN taps |->
            <<At(job.a, Nchw(job.ad, n, taps[j].c, taps[j].y, taps[j].x)),
              At(job.b, Nchw(job.bd, o, taps[j].c, taps[j].ky, taps[j].kx))>>]>>

Height(job) == WindowCount(job.ad[3], job.bd[3], job.opts.strides[1], job.opts.padding[1])
Width(job)  == WindowCount(job.ad[4], job.bd[4], job.opts.strides[2], job.opts.padding[2])

\* A window that fits has a count.
LEMMA WindowCountType ==
    ASSUME NEW size \in Nat, NEW kernel \in Nat, NEW stride \in Nat, NEW pad \in Nat,
           WindowFits(size, kernel, stride, pad)
    PROVE  WindowCount(size, kernel, stride, pad) \in Nat
  <1>1. PICK x : x = size + 2 * pad - kernel
    OBVIOUS
  <1>2. x \in Int /\ x >= 0 /\ stride # 0
    BY <1>1 DEF WindowFits
  <1>3. x \div stride \in Nat
    BY <1>2
  <1>4. WindowCount(size, kernel, stride, pad) = x \div stride + 1
    BY <1>1 DEF WindowCount
  <1>5. QED
    BY <1>3, <1>4

\* conv2d refuses, or computes an element for each coordinate of its output.
LEMMA ConvIs ==
    ASSUME NEW job, job.op = "conv2d", IsJob(job)
    PROVE  /\ Naive(job).err # None => Naive(job) = Fails(Naive(job).err)
           /\ Naive(job).err = None =>
                 LET od == <<job.ad[1], job.bd[1], Height(job), Width(job)>>
                     o(j) == UnravelIndex(j - 1, od)
                 IN  /\ Naive(job) = Writes([j \in 1 .. job.len |->
                                        ConvTerm(job, o(j)[1], o(j)[2], o(j)[3], o(j)[4])])
                     /\ NumEl(od) # Overflow /\ job.len = NumEl(od)
                     /\ Height(job) \in Nat /\ Width(job) \in Nat
  <1> DEFINE s == job.opts.strides
             p == job.opts.padding
             od == <<job.ad[1], job.bd[1], Height(job), Width(job)>>
             o(j) == UnravelIndex(j - 1, od)
             agree == job.bd[2] = job.ad[2]
             fits == /\ WindowFits(job.ad[3], job.bd[3], s[1], p[1])
                     /\ WindowFits(job.ad[4], job.bd[4], s[2], p[2])
  <1>1. PICK out : out = [j \in 1 .. job.len |->
                             ConvTerm(job, o(j)[1], o(j)[2], o(j)[3], o(j)[4])]
    OBVIOUS
  <1>2. PICK c1, c2, c3 : /\ c1 = OpFits(Len(job.a), job.ad) /\ c2 = OpFits(Len(job.b), job.bd)
                          /\ c3 = OpFits(job.len, od)
    OBVIOUS
  <1>3. Naive(job) = IF ~agree THEN Fails("Op.ShapeMismatch")
                     ELSE IF ~fits THEN Fails("Op.Invalid")
                     ELSE Answer(<<c1, c2, c3>>, out)
    <2>1. Naive(job) = Conv2d(job.a, job.ad, job.b, job.bd, job.len, s, p)
      BY DEF Naive
    <2>2. QED
      BY <1>1, <1>2, <2>1, Zenon DEF Fill, Conv2d, ConvTerm, Height, Width
  <1> HIDE DEF agree, od, o
  <1>4. ASSUME FirstError(<<c1, c2, c3>>) = None PROVE NumEl(od) # Overflow /\ job.len = NumEl(od)
    <2>1. PICK k, checks : k = 3 /\ checks = <<c1, c2, c3>>
      OBVIOUS
    <2>2. k \in Nat /\ DOMAIN checks = 1 .. k /\ Len(checks) = k /\ FirstError(checks) = None
      BY <1>4, <2>1
    <2>3. \A x \in 1 .. k : checks[x] = None
      BY <2>2, AllPassed
    <2>4. c3 = None
      BY <2>1, <2>3
    <2>5. QED
      BY <1>2, <2>4, OpFitsIs
  <1>5. ASSUME fits PROVE Height(job) \in Nat /\ Width(job) \in Nat
    <2>1. /\ job.ad[3] \in Nat /\ job.bd[3] \in Nat /\ job.ad[4] \in Nat /\ job.bd[4] \in Nat
          /\ s[1] \in Nat /\ s[2] \in Nat /\ p[1] \in Nat /\ p[2] \in Nat
      <3>1. /\ job.ad \in [1 .. 4 -> Nat] /\ job.bd \in [1 .. 4 -> Nat]
            /\ s \in [1 .. 2 -> Nat] /\ p \in [1 .. 2 -> Nat]
        BY Zenon DEF IsJob
      <3>2. QED
        BY <3>1
    <2>2. QED
      BY <1>5, <2>1, WindowCountType DEF Height, Width
  <1>6. Fails("Op.ShapeMismatch").err = "Op.ShapeMismatch" /\ Fails("Op.Invalid").err = "Op.Invalid"
        /\ "Op.ShapeMismatch" # None /\ "Op.Invalid" # None
    BY DEF Fails, None
  <1>7. CASE ~agree
    BY <1>3, <1>6, <1>7
  <1>8. CASE agree /\ ~fits
    BY <1>3, <1>6, <1>8
  <1>9. CASE agree /\ fits
    <2>1. Naive(job) = Answer(<<c1, c2, c3>>, out)
      BY <1>3, <1>9
    <2>2. Height(job) \in Nat /\ Width(job) \in Nat
      BY <1>5, <1>9
    <2>3. /\ Naive(job).err # None => Naive(job) = Fails(Naive(job).err)
          /\ Naive(job).err = None => /\ Naive(job) = Writes(out)
                                      /\ NumEl(od) # Overflow /\ job.len = NumEl(od)
      BY <1>4, <2>1, AnswerIs
    <2>4. QED
      BY <1>1, <2>2, <2>3, Zenon DEF od, o
  <1>10. QED
    BY <1>7, <1>8, <1>9

\* What the thread of a number writes, and what all of them do.
ConvAt(job, t, b, c, d) ==
    ConvTerm(job, t \div ((d * c) * b), (t \div (d * c)) % b, (t \div d) % c, t % d)

ConvWrites(job, a, b, c, d) ==
    {<<t, ConvAt(job, t, b, c, d)>> : t \in {u \in Threads(((a * b) * c) * d) : u < ((a * b) * c) * d}}

\* conv2d_main finds the coordinates that the reference does.
LEMMA Conv2dShaderIs ==
    ASSUME NEW job, job.op = "conv2d", IsJob(job), Height(job) \in Nat, Width(job) \in Nat,
           NumEl(<<job.ad[1], job.bd[1], Height(job), Width(job)>>) # Overflow,
           job.len = NumEl(<<job.ad[1], job.bd[1], Height(job), Width(job)>>), job.len > 0
    PROVE  Conv2dShader(job) =
              [j \in 1 .. job.len |->
                  LET o == UnravelIndex(j - 1, <<job.ad[1], job.bd[1], Height(job), Width(job)>>)
                  IN  ConvTerm(job, o[1], o[2], o[3], o[4])]
  <1>1. PICK len, a, b, c, d : /\ len = job.len /\ a = job.ad[1] /\ b = job.bd[1]
                               /\ c = Height(job) /\ d = Width(job)
    OBVIOUS
  <1>2. a \in Nat /\ b \in Nat /\ c \in Nat /\ d \in Nat
    <2>1. job.ad \in [1 .. 4 -> Nat] /\ job.bd \in [1 .. 4 -> Nat]
      BY Zenon DEF IsJob
    <2>2. QED
      BY <1>1, <2>1
  <1>3. NumEl(<<a, b, c, d>>) # Overflow /\ len = NumEl(<<a, b, c, d>>) /\ len > 0
    BY <1>1, Zenon
  <1>4. PICK cd, bcd : cd = c * d /\ bcd = b * cd
    OBVIOUS
  <1>4a. InRows(bcd, b, cd) /\ InRows(cd, c, d)
    BY <1>4 DEF InRows
  <1>5. InRows(len, a, bcd) /\ len \in Nat /\ len <= UsizeMax
    BY <1>2, <1>3, <1>4a, FourInRows
  <1>5a. len = ((a * b) * c) * d
    <2>1. NumEl(<<a, b, c, d>>) = ((a * b) * c) * d /\ ~(((a * b) * c) * d > UsizeMax)
      BY <1>2, <1>3, NumElOfFour, Zenon
    <2>2. QED
      BY <1>3, <2>1, Zenon
  <1>6. d * c = cd /\ (d * c) * b = bcd
    BY <1>2, <1>4
  <1> DEFINE term(t) == ConvTerm(job, t \div bcd, (t \div cd) % b, (t \div d) % c, t % d)
  <1>7. PICK f : f = [t \in 0 .. len - 1 |-> term(t)]
    OBVIOUS
  <1> DEFINE value(t) == ConvTerm(job, t \div ((d * c) * b), (t \div (d * c)) % b, (t \div d) % c, t % d)
  <1>8. Conv2dShader(job)
          = Written(len, {<<t, value(t)>> : t \in {u \in Threads(((a * b) * c) * d) :
                                                        u < ((a * b) * c) * d}})
    <2>1. Conv2dShader(job)
            = Written(job.len, ConvWrites(job, job.ad[1], job.bd[1], Height(job), Width(job)))
      BY Zenon DEF Conv2dShader, ConvWrites, ConvAt, ConvTerm, Height, Width
    <2>2. Conv2dShader(job) = Written(len, ConvWrites(job, a, b, c, d))
      BY <1>1, <2>1, Zenon
    <2>3. QED
      BY <2>2, Zenon DEF ConvWrites, ConvAt
  <1>9. \A t : value(t) = term(t)
    BY <1>6, Zenon
  <1> HIDE DEF value, term
  <1>10. Conv2dShader(job) = Written(len, {<<t, value(t)>> : t \in {u \in Threads(len) : u < len}})
    BY <1>5a, <1>8, Zenon
  <1>11. {u \in Threads(len) : u < len} = 0 .. len - 1
    BY <1>5, ThreadsCover
  <1>12. {<<t, value(t)>> : t \in {u \in Threads(len) : u < len}}
           = {<<t, f[t]>> : t \in {u \in Threads(len) : u < len}}
    <2>1. \A t \in {u \in Threads(len) : u < len} : f[t] = value(t)
      BY <1>7, <1>9, <1>11, Zenon
    <2>2. PICK T : T = {u \in Threads(len) : u < len}
      OBVIOUS
    <2>3. \A t \in T : f[t] = value(t)
      BY <2>1, <2>2, Zenon
    <2>4. {<<t, value(t)>> : t \in T} = {<<t, f[t]>> : t \in T}
      BY <2>3
    <2>5. QED
      BY <2>2, <2>4, Zenon
  <1>13. Conv2dShader(job) = [j \in 1 .. len |-> f[j - 1]]
    <2>1. DOMAIN f = 0 .. len - 1
      BY <1>7
    <2>2. Written(len, {<<i, f[i]>> : i \in {t \in Threads(len) : t < len}})
            = [j \in 1 .. len |-> f[j - 1]]
      BY <1>5, <2>1, ElementwiseShader, Zenon
    <2>3. QED
      BY <1>10, <1>12, <2>2, Zenon
  <1>14. ASSUME NEW j \in 1 .. len
         PROVE  f[j - 1] = LET o == UnravelIndex(j - 1, <<a, b, c, d>>)
                           IN  ConvTerm(job, o[1], o[2], o[3], o[4])
    <2>1. PICK i : i = j - 1
      OBVIOUS
    <2>2. i \in Nat /\ i \in 0 .. len - 1
      <3>1. len \in Nat
        BY <1>5
      <3>2. QED
        BY <2>1, <3>1
    <2>3. f[i] = term(i)
      BY <1>7, <2>2, Zenon
    <2>4. IsUnravelled(i, <<a, b, c, d>>, b, c, d, cd, bcd)
      BY <1>2, <1>3, <1>4a, <1>5, <2>2, UnravelOfFour
    <2>5. QED
      BY <2>1, <2>3, <2>4, Zenon DEF term, IsUnravelled
  <1>15. QED
    BY <1>1, <1>13, <1>14, Zenon

-----------------------------------------------------------------------------
(* The seven operators together *)

\* A job whose NaN, if it has one, no relu meets.
Plain(job) == job.op = "relu" => "nan" \notin ToSet(job.a)

OpOf(job) == job.op \in {"matmul", "conv2d", "add", "relu", "softmax", "sigmoid", "gelu"}

\* What a job's fields are.
LEMMA JobTypes ==
    ASSUME NEW job, IsJob(job)
    PROVE  /\ OpOf(job) /\ job.len \in Nat /\ job.a \in Seq(ToSet(job.a))
           /\ job.op = "matmul" => job.ad \in [1 .. 2 -> Nat] /\ job.bd \in [1 .. 2 -> Nat]
           /\ job.op = "softmax" => job.opts.rowLen \in Nat
  <1>1. /\ OpOf(job) /\ job.len \in Nat /\ job.a \in Seq(ToSet(job.a))
        /\ job.op = "matmul" => {job.ad, job.bd} \subseteq [1 .. 2 -> Nat]
        /\ job.op = "softmax" => job.opts.rowLen \in Nat
    BY Zenon DEF IsJob, OpOf
  <1>2. QED
    BY <1>1

\* What the reference refuses it fails with, and what it does not it writes in full.
LEMMA NaiveIs ==
    ASSUME NEW job, IsJob(job)
    PROVE  /\ Naive(job).err # None => Naive(job) = Fails(Naive(job).err)
           /\ Naive(job).err = None =>
                 \E f : Naive(job) = Writes(f) /\ DOMAIN f = 1 .. job.len
                          /\ (job.len = 0 => f = <<>>)
  <1>1. ASSUME NEW g, NEW n, n = job.len, g = [j \in 1 .. n |-> g[j]]
        PROVE  DOMAIN g = 1 .. job.len /\ (job.len = 0 => g = <<>>)
    BY <1>1
  <1>2. CASE job.op = "matmul"
    <2>1. PICK g : g = [j \in 1 .. job.len |-> Dot(job, (j - 1) \div job.bd[2], (j - 1) % job.bd[2])]
      OBVIOUS
    <2>2. DOMAIN g = 1 .. job.len /\ (job.len = 0 => g = <<>>)
      BY <2>1
    <2>3. job.ad \in [1 .. 2 -> Nat] /\ job.bd \in [1 .. 2 -> Nat]
      BY <1>2, JobTypes
    <2>4. QED
      BY <1>2, <2>1, <2>2, <2>3, MatMulIs, Zenon
  <1>3. CASE job.op = "conv2d"
    <2>1. PICK g : g = [j \in 1 .. job.len |->
                          LET o == UnravelIndex(j - 1, <<job.ad[1], job.bd[1], Height(job), Width(job)>>)
                          IN  ConvTerm(job, o[1], o[2], o[3], o[4])]
      OBVIOUS
    <2>2. DOMAIN g = 1 .. job.len /\ (job.len = 0 => g = <<>>)
      BY <2>1
    <2>3. QED
      BY <1>3, <2>1, <2>2, ConvIs, Zenon
  <1>4. CASE job.op = "add"
    <2>1. PICK g : g = [j \in 1 .. job.len |-> <<"Add", At(job.a, j - 1), At(job.b, j - 1)>>]
      OBVIOUS
    <2>2. DOMAIN g = 1 .. job.len /\ (job.len = 0 => g = <<>>)
      BY <2>1
    <2>3. QED
      BY <1>4, <2>1, <2>2, AddIs, Zenon
  <1>5. CASE job.op = "relu"
    <2>1. PICK g : g = [j \in 1 .. job.len |-> ScalarRelu(At(job.a, j - 1))]
      OBVIOUS
    <2>2. DOMAIN g = 1 .. job.len /\ (job.len = 0 => g = <<>>)
      BY <2>1
    <2>3. QED
      BY <1>5, <2>1, <2>2, ReluIs, Zenon
  <1>6. CASE job.op = "softmax"
    <2>1. PICK n, g : n = job.opts.rowLen /\ g = [j \in 1 .. job.len |->
             <<"Softmax", At(job.a, j - 1),
               SubSeq(job.a, ((j - 1) \div n) * n + 1, ((j - 1) \div n) * n + n)>>]
      OBVIOUS
    <2>2. DOMAIN g = 1 .. job.len /\ (job.len = 0 => g = <<>>)
      BY <2>1
    <2>3. QED
      BY <1>6, <2>1, <2>2, SoftmaxIs, Zenon
  <1>7. CASE job.op \in {"sigmoid", "gelu"}
    <2>1. PICK g : g = [j \in 1 .. job.len |-> <<job.op, At(job.a, j - 1)>>]
      OBVIOUS
    <2>2. DOMAIN g = 1 .. job.len /\ (job.len = 0 => g = <<>>)
      BY <2>1
    <2>3. QED
      <3>1. /\ Naive(job).err # None => Naive(job) = Fails(Naive(job).err)
            /\ Naive(job).err = None =>
                 Naive(job) = Writes([j \in 1 .. job.len |-> <<job.op, At(job.a, j - 1)>>])
        BY <1>7, UnaryIs
      <3>2. QED
        BY <2>1, <2>2, <3>1, Zenon
  <1>8. QED
    BY <1>2, <1>3, <1>4, <1>5, <1>6, <1>7, JobTypes, Zenon DEF OpOf

\* Element i of a slice is one of its elements.
LEMMA NoNan ==
    ASSUME NEW a, NEW len, a \in Seq(ToSet(a)), len = Len(a), "nan" \notin ToSet(a)
    PROVE  \A i \in 0 .. len - 1 : At(a, i) # "nan"
  <1>1. PICK T : T = ToSet(a)
    OBVIOUS
  <1>2. a \in Seq(T)
    BY <1>1
  <1>3. \A i \in 0 .. len - 1 : a[i + 1] \in T
    BY <1>2
  <1>4. QED
    BY <1>1, <1>3 DEF At

\* The device computes what the reference writes.
LEMMA DeviceComputes ==
    ASSUME NEW job, IsJob(job), Plain(job), Naive(job).err = None, job.len > 0, NEW nanMax
    PROVE  Naive(job) = Writes(Computed(job, nanMax))
  <1>0. job.len \in Nat /\ OpOf(job) /\ job.a \in Seq(ToSet(job.a))
    BY JobTypes
  <1>1. CASE job.op = "matmul"
    <2>1. job.ad \in [1 .. 2 -> Nat] /\ job.bd \in [1 .. 2 -> Nat]
      BY <1>1, JobTypes
    <2>2. job.ad[1] \in Nat /\ job.bd[2] \in Nat
      BY <2>1
    <2>3. /\ Naive(job) = Writes([j \in 1 .. job.len |->
                                    Dot(job, (j - 1) \div job.bd[2], (j - 1) % job.bd[2])])
          /\ InRows(job.len, job.ad[1], job.bd[2])
      BY <1>1, <2>1, MatMulIs, Zenon
    <2>4. Naive(job) = Writes(MatMulShader(job))
      BY <2>2, <2>3, MatMulShaderIs, Zenon
    <2>5. Computed(job, nanMax) = MatMulShader(job)
      BY <1>1 DEF Computed
    <2>6. QED
      BY <2>4, <2>5
  <1>2. CASE job.op = "conv2d"
    <2>1. LET od == <<job.ad[1], job.bd[1], Height(job), Width(job)>>
              o(j) == UnravelIndex(j - 1, od)
          IN  /\ Naive(job) = Writes([j \in 1 .. job.len |->
                                 ConvTerm(job, o(j)[1], o(j)[2], o(j)[3], o(j)[4])])
              /\ NumEl(od) # Overflow /\ job.len = NumEl(od)
              /\ Height(job) \in Nat /\ Width(job) \in Nat
      BY <1>2, ConvIs, Zenon
    <2>2. Naive(job) = Writes(Conv2dShader(job))
      BY <1>2, <2>1, Conv2dShaderIs, Zenon
    <2>3. Computed(job, nanMax) = Conv2dShader(job)
      BY <1>2 DEF Computed
    <2>4. QED
      BY <2>2, <2>3
  <1>3. CASE job.op = "add"
    <2>1. Naive(job) = Writes(AddShader(job))
      BY <1>0, <1>3, AddIs, AddShaderIs, Zenon
    <2>2. Computed(job, nanMax) = AddShader(job)
      BY <1>3 DEF Computed
    <2>3. QED
      BY <2>1, <2>2
  <1>4. CASE job.op = "softmax"
    <2>1. PICK n : n = job.opts.rowLen
      OBVIOUS
    <2>2. /\ Naive(job) = Writes([j \in 1 .. job.len |->
                       <<"Softmax", At(job.a, j - 1),
                         SubSeq(job.a, ((j - 1) \div n) * n + 1, ((j - 1) \div n) * n + n)>>])
          /\ job.len = Len(job.a) /\ n # 0 /\ Len(job.a) % n = 0
      BY <1>4, <2>1, SoftmaxIs, Zenon
    <2>3. job.opts.rowLen \in Nat \ {0}
      BY <1>4, <2>1, <2>2, JobTypes
    <2>4. SoftmaxShader(job) = [j \in 1 .. job.len |->
                       <<"Softmax", At(job.a, j - 1),
                         SubSeq(job.a, ((j - 1) \div n) * n + 1, ((j - 1) \div n) * n + n)>>]
      <3>1. LET k == job.opts.rowLen IN
            SoftmaxShader(job) = [j \in 1 .. job.len |->
               <<"Softmax", At(job.a, j - 1),
                 SubSeq(job.a, ((j - 1) \div k) * k + 1, ((j - 1) \div k) * k + k)>>]
        BY <1>0, <2>1, <2>2, <2>3, SoftmaxShaderIs
      <3>2. QED
        BY <2>1, <3>1
    <2>5. Computed(job, nanMax) = SoftmaxShader(job)
      BY <1>4 DEF Computed
    <2>6. QED
      BY <2>2, <2>4, <2>5, Zenon
  <1>5. CASE job.op = "relu"
    <2>1. /\ Naive(job) = Writes([j \in 1 .. job.len |-> ScalarRelu(At(job.a, j - 1))])
          /\ job.len = Len(job.a)
      BY <1>5, ReluIs, Zenon
    <2>2. \A i \in 0 .. job.len - 1 : At(job.a, i) # "nan"
      BY <1>0, <1>5, <2>1, NoNan, Zenon DEF Plain
    <2>3. UnaryShader(job, nanMax) =
              [j \in 1 .. job.len |-> IF job.op = "relu" THEN ScalarRelu(At(job.a, j - 1))
                                      ELSE <<job.op, At(job.a, j - 1)>>]
      BY <1>0, <2>2, UnaryShaderIs, Zenon
    <2>4. UnaryShader(job, nanMax) = [j \in 1 .. job.len |-> ScalarRelu(At(job.a, j - 1))]
      BY <1>5, <2>3, Zenon
    <2>5. Computed(job, nanMax) = UnaryShader(job, nanMax)
      BY <1>5 DEF Computed
    <2>6. QED
      BY <2>1, <2>4, <2>5, Zenon
  <1>6. CASE job.op \in {"sigmoid", "gelu"}
    <2>1. Naive(job) = Writes([j \in 1 .. job.len |-> <<job.op, At(job.a, j - 1)>>])
      BY <1>6, UnaryIs
    <2>2. job.op # "relu"
      BY <1>6
    <2>3. UnaryShader(job, nanMax) =
              [j \in 1 .. job.len |-> IF job.op = "relu" THEN ScalarRelu(At(job.a, j - 1))
                                      ELSE <<job.op, At(job.a, j - 1)>>]
      BY <1>0, <2>2, UnaryShaderIs, Zenon
    <2>4. UnaryShader(job, nanMax) = [j \in 1 .. job.len |-> <<job.op, At(job.a, j - 1)>>]
      BY <2>2, <2>3
    <2>5. Computed(job, nanMax) = UnaryShader(job, nanMax)
      BY <1>6 DEF Computed
    <2>6. QED
      BY <2>1, <2>4, <2>5, Zenon
  <1>7. QED
    BY <1>0, <1>1, <1>2, <1>3, <1>4, <1>5, <1>6 DEF OpOf

-----------------------------------------------------------------------------
(* The vector loops *)

\* The first m turns of a loop of vectors.
Vectors(m) == [e \in 1 .. m |-> [i |-> e - 1, by |-> "vector"]]

\* The values of s, then those of t.
Glues(g, s, t, m, k) ==
    (\A e \in 1 .. m : s[e] = g[e]) /\ (\A e \in 1 .. k : t[e] = g[m + e])

\* A sequence is known by what it starts with and what follows.
LEMMA Concatenated ==
    ASSUME NEW V, NEW s \in Seq(V), NEW t \in Seq(V), NEW g \in Seq(V),
           NEW m, m = Len(s), NEW k, k = Len(t), Len(g) = m + k, Glues(g, s, t, m, k)
    PROVE  s \o t = g
  <1>1. PICK u : u = s \o t
    OBVIOUS
  <1>2. /\ s \o t \in Seq(V) /\ Len(s \o t) = Len(s) + Len(t)
        /\ \A e \in 1 .. Len(s) : (s \o t)[e] = s[e]
        /\ \A e \in 1 .. Len(t) : (s \o t)[Len(s) + e] = t[e]
    BY Joined
  <1>3. /\ u \in Seq(V) /\ Len(u) = m + k /\ m \in Nat /\ k \in Nat
        /\ \A e \in 1 .. m : u[e] = s[e]
        /\ \A e \in 1 .. k : u[m + e] = t[e]
    BY <1>1, <1>2
  <1>4. ASSUME NEW e \in 1 .. m + k PROVE u[e] = g[e]
    <2>1. CASE e <= m
      BY <1>3, <2>1 DEF Glues
    <2>2. CASE ~(e <= m)
      <3>1. PICK x : x = e - m
        OBVIOUS
      <3>2. x \in 1 .. k /\ m + x = e
        BY <1>3, <2>2, <3>1
      <3>3. u[m + x] = t[x] /\ t[x] = g[m + x]
        BY <1>3, <3>2, Zenon DEF Glues
      <3>4. QED
        BY <3>2, <3>3, Zenon
    <2>3. QED
      BY <2>1, <2>2
  <1>5. u = g
    BY <1>3, <1>4
  <1>6. QED
    BY <1>1, <1>5

Block(v, lanes) == [l \in 1 .. lanes |-> [i |-> (v - 1) * lanes + l - 1, by |-> "vector"]]

\* One more vector.
LEMMA NextVector ==
    ASSUME NEW v \in Nat, NEW lanes \in Nat
    PROVE  Vectors(v * lanes) \o Block(v + 1, lanes) = Vectors((v + 1) * lanes)
  <1>1. PICK m : m = v * lanes
    OBVIOUS
  <1>2. m \in Nat /\ (v + 1) * lanes = m + lanes /\ (v + 1) - 1 = v
    BY <1>1
  <1>2a. m \in Nat
    BY <1>2
  <1> DEFINE V == [i : Int, by : {"vector"}]
             s == [e \in 1 .. m |-> [i |-> e - 1, by |-> "vector"]]
             t == [l \in 1 .. lanes |-> [i |-> m + l - 1, by |-> "vector"]]
             g == [e \in 1 .. m + lanes |-> [i |-> e - 1, by |-> "vector"]]
  <1>3. s \in Seq(V) /\ t \in Seq(V) /\ g \in Seq(V) /\ Len(s) = m /\ Len(t) = lanes
        /\ Len(g) = m + lanes
    BY <1>2a
  <1>4. \A e \in 1 .. m : s[e] = g[e]
    BY <1>2
  <1>5. \A e \in 1 .. lanes : t[e] = g[m + e]
    BY <1>2
  <1>6. s = Vectors(m) /\ g = Vectors(m + lanes)
    BY DEF Vectors
  <1>7. t = Block(v + 1, lanes)
    BY <1>1, <1>2, Zenon DEF Block
  <1> HIDE DEF s, t, g, V
  <1>9. PICK x, y, z : x = s /\ y = t /\ z = g
    OBVIOUS
  <1>10. Glues(z, x, y, m, lanes)
    BY <1>4, <1>5, <1>9, Zenon DEF Glues
  <1>11. /\ x \in Seq(V) /\ y \in Seq(V) /\ z \in Seq(V) /\ Len(x) = m /\ Len(y) = lanes
         /\ Len(z) = m + lanes
    BY <1>3, <1>9, Zenon
  <1>12. x \o y = z
    BY <1>10, <1>11, Concatenated
  <1>13. QED
    BY <1>1, <1>2, <1>6, <1>7, <1>9, <1>12, Zenon

\* The vectors one after the other.
LEMMA FlattenBlocks ==
    ASSUME NEW n \in Nat, NEW lanes \in Nat
    PROVE  FlattenSeq([v \in 1 .. n |-> Block(v, lanes)]) = Vectors(n * lanes)
  <1>1. PICK seqs : seqs = [v \in 1 .. n |-> Block(v, lanes)]
    OBVIOUS
  <1>2. Len(seqs) = n /\ \A v \in 1 .. n : seqs[v] = Block(v, lanes)
    BY <1>1
  <1>3. CASE n = 0
    <2>1. FlattenSeq(seqs) = seqs
      BY <1>2, <1>3 DEF FlattenSeq
    <2>2. n * lanes = 0
      BY <1>3
    <2>3. seqs = <<>> /\ Vectors(0) = <<>>
      BY <1>1, <1>3 DEF Vectors
    <2>4. QED
      BY <1>1, <2>1, <2>2, <2>3, Zenon
  <1>4. CASE n # 0
    <2> DEFINE c == CHOOSE f : f = [i \in 1 .. Len(seqs) |->
                                      IF i = 1 THEN seqs[i] ELSE f[i - 1] \o seqs[i]]
    <2>1. FlattenSeq(seqs) = c[n]
      BY <1>2, <1>4, Zenon DEF FlattenSeq
    <2>2. PICK w : w = [i \in 1 .. n |-> Vectors(i * lanes)]
      OBVIOUS
    <2>3. Block(1, lanes) = Vectors(1 * lanes)
      <3>1. PICK one : one = 1
        OBVIOUS
      <3>2. (one - 1) * lanes = 0 /\ one * lanes = lanes
        BY <3>1
      <3>3. \A l \in 1 .. lanes : 0 + l - 1 = l - 1
        OBVIOUS
      <3>4. Block(one, lanes) = [l \in 1 .. lanes |-> [i |-> l - 1, by |-> "vector"]]
        BY <3>2, <3>3 DEF Block
      <3>5. QED
        BY <3>1, <3>2, <3>4, Zenon DEF Vectors
    <2>4. ASSUME NEW i \in 1 .. n PROVE w[i] = IF i = 1 THEN seqs[i] ELSE w[i - 1] \o seqs[i]
      <3>1. CASE i = 1
        BY <1>2, <2>2, <2>3, <3>1
      <3>2. CASE i # 1
        <4>1. PICK v : v = i - 1
          OBVIOUS
        <4>2. v \in 1 .. n /\ v \in Nat /\ i = v + 1
          BY <3>2, <4>1
        <4>3. w[v] \o seqs[i] = Vectors(v * lanes) \o Block(v + 1, lanes)
          BY <1>2, <2>2, <4>2
        <4>4. w[i] = Vectors((v + 1) * lanes)
          BY <2>2, <4>2
        <4>5. w[v] \o seqs[i] = w[i]
          BY <4>2, <4>3, <4>4, NextVector
        <4>6. QED
          BY <3>2, <4>1, <4>5, Zenon
      <3>3. QED
        BY <3>1, <3>2
    <2>5. w = [i \in 1 .. Len(seqs) |-> IF i = 1 THEN seqs[i] ELSE w[i - 1] \o seqs[i]]
      BY <1>2, <2>2, <2>4
    <2>6. c = [i \in 1 .. Len(seqs) |-> IF i = 1 THEN seqs[i] ELSE c[i - 1] \o seqs[i]]
      BY <2>5, Zenon
    <2> HIDE DEF c
    <2> DEFINE P == {k \in Nat : k # 0 /\ k <= n => c[k] = w[k]}
    <2>7. 0 \in P
      OBVIOUS
    <2>8. ASSUME NEW k \in 0 .. n - 1, k \in P PROVE k + 1 \in P
      <3>1. PICK i : i = k + 1
        OBVIOUS
      <3>2. i \in 1 .. n /\ i \in Nat /\ i - 1 = k /\ k \in Nat /\ (i = 1 <=> k = 0) /\ k <= n
        BY <3>1
      <3>3. c[i] = IF i = 1 THEN seqs[i] ELSE c[k] \o seqs[i]
        BY <1>2, <2>6, <3>2
      <3>4. w[i] = IF i = 1 THEN seqs[i] ELSE w[k] \o seqs[i]
        BY <2>4, <3>2
      <3>5. i # 1 => c[k] = w[k]
        BY <2>8, <3>2
      <3>6. c[i] = w[i]
        BY <3>3, <3>4, <3>5
      <3>7. QED
        BY <3>1, <3>2, <3>6
    <2> HIDE DEF P
    <2>9. \A k \in 0 .. n : k \in P
      BY <2>7, <2>8, UpTo
    <2>10. c[n] = w[n]
      <3>1. n \in P
        BY <2>9
      <3>2. QED
        BY <1>4, <3>1 DEF P
    <2>11. w[n] = Vectors(n * lanes)
      BY <1>4, <2>2
    <2>12. QED
      BY <1>1, <2>1, <2>10, <2>11, Zenon
  <1>5. QED
    BY <1>3, <1>4

\* A sweep goes through every element once, in order.
InOrder(sweep, len) ==
    /\ DOMAIN sweep = 1 .. len
    /\ \A e \in 1 .. len : sweep[e].i = e - 1

\* The vectors and the rest are all the elements, each once.
LEMMA SweepIs ==
    ASSUME NEW len \in Nat, NEW lanes \in Nat \ {0}
    PROVE  InOrder(Sweep(len, lanes), len)
  <1>1. PICK q, r, m : q = len \div lanes /\ r = len % lanes /\ m = q * lanes
    OBVIOUS
  <1>2. q \in Nat /\ r \in Nat /\ m \in Nat /\ len = m + r
    BY <1>1
  <1> DEFINE t == [x \in 1 .. r |-> [i |-> len - r + x - 1, by |-> "scalar"]]
             V == [i : Int, by : {"vector", "scalar"}]
             g == [e \in 1 .. m + r |-> [i |-> e - 1, by |-> IF e <= m THEN "vector" ELSE "scalar"]]
  <1>3. Sweep(len, lanes) = Vectors(m) \o t
    <2>1. FlattenSeq([v \in 1 .. q |-> Block(v, lanes)]) = Vectors(m)
      BY <1>1, <1>2, FlattenBlocks
    <2>2. QED
      BY <1>1, <2>1, Zenon DEF Sweep, Block
  <1>3a. /\ Vectors(m) \in Seq(V) /\ t \in Seq(V) /\ g \in Seq(V)
         /\ Len(Vectors(m)) = m /\ Len(t) = r /\ Len(g) = m + r
    BY <1>2 DEF Vectors
  <1>4. \A e \in 1 .. m : Vectors(m)[e] = g[e]
    BY <1>2 DEF Vectors
  <1>5. \A e \in 1 .. r : t[e] = g[m + e]
    BY <1>2
  <1>6. \A e \in 1 .. m + r : g[e].i = e - 1
    OBVIOUS
  <1> HIDE DEF t, V, g
  <1>7. DOMAIN g = 1 .. m + r
    BY DEF g
  <1>8. PICK x, y, z : x = Vectors(m) /\ y = t /\ z = g
    OBVIOUS
  <1>9. Glues(z, x, y, m, r)
    BY <1>4, <1>5, <1>8, Zenon DEF Glues
  <1>10. /\ x \in Seq(V) /\ y \in Seq(V) /\ z \in Seq(V) /\ Len(x) = m /\ Len(y) = r
         /\ Len(z) = m + r
    BY <1>3a, <1>8, Zenon
  <1>11. x \o y = z
    BY <1>9, <1>10, Concatenated
  <1>12. Sweep(len, lanes) = g
    BY <1>3, <1>8, <1>11, Zenon
  <1>13. QED
    BY <1>2, <1>6, <1>7, <1>12, Zenon DEF InOrder

-----------------------------------------------------------------------------
(* A loop that visits each element of a row once *)

\* c visits the elements of the row `base` one by one, and leaves h[j] at j if
\* it found base[j] there.
Visits(n, base, h, c) ==
    /\ c[{}] = base
    /\ \A s \in SUBSET (1 .. n) :
          s # {} /\ c[s \ {Max(s)}][Max(s)] = base[Max(s)]
            => c[s] = [c[s \ {Max(s)}] EXCEPT ![Max(s)] = h[Max(s)]]

\* The row when the elements of s have been visited.
Visited(n, base, h) ==
    [s \in SUBSET (1 .. n) |-> [j \in 1 .. n |-> IF j \in s THEN h[j] ELSE base[j]]]

IsRow(row, n) == DOMAIN row = 1 .. n /\ row = [j \in 1 .. n |-> row[j]]

VisitsEach(n, base, h, w) ==
    /\ w[{}] = base
    /\ \A s \in SUBSET (1 .. n) :
          s # {} => /\ Max(s) \in 1 .. n
                    /\ w[s \ {Max(s)}][Max(s)] = base[Max(s)]
                    /\ w[s] = [w[s \ {Max(s)}] EXCEPT ![Max(s)] = h[Max(s)]]

\* One element more.
LEMMA VisitedStep ==
    ASSUME NEW n \in Nat, NEW base, IsRow(base, n), NEW h, NEW w, w = Visited(n, base, h)
    PROVE  VisitsEach(n, base, h, w)
  <1>1. w[{}] = base
    BY DEF Visited, IsRow
  <1>2. ASSUME NEW s \in SUBSET (1 .. n), s # {}
        PROVE  /\ Max(s) \in 1 .. n
               /\ w[s \ {Max(s)}][Max(s)] = base[Max(s)]
               /\ w[s] = [w[s \ {Max(s)}] EXCEPT ![Max(s)] = h[Max(s)]]
    <2>1. PICK m, r : m = Max(s) /\ r = s \ {Max(s)}
      OBVIOUS
    <2>2. m \in s /\ m \in 1 .. n /\ r \in SUBSET (1 .. n) /\ m \notin r
          /\ \A j \in 1 .. n : j # m => (j \in r <=> j \in s)
      BY <1>2, <2>1, MaxIs
    <2>3. /\ w[r] = [j \in 1 .. n |-> IF j \in r THEN h[j] ELSE base[j]]
          /\ w[s] = [j \in 1 .. n |-> IF j \in s THEN h[j] ELSE base[j]]
      BY <2>2 DEF Visited
    <2>4. w[r][m] = base[m]
      BY <2>2, <2>3
    <2>5. w[s] = [w[r] EXCEPT ![m] = h[m]]
      BY <2>2, <2>3
    <2>6. QED
      BY <2>1, <2>2, <2>4, <2>5
  <1>3. QED
    BY <1>1, <1>2 DEF VisitsEach

\* At the end every element was visited.
LEMMA VisitsAll ==
    ASSUME NEW n \in Nat, NEW base, IsRow(base, n), NEW h, NEW c, Visits(n, base, h, c)
    PROVE  c[1 .. n] = [j \in 1 .. n |-> h[j]]
  <1> DEFINE row(k) == [j \in 1 .. n |-> IF j <= k THEN h[j] ELSE base[j]]
             P == {k \in 0 .. n : c[1 .. k] = row(k)}
  <1>2. 0 \in P
    <2>1. 1 .. 0 = {}
      OBVIOUS
    <2>2. c[1 .. 0] = base
      BY <2>1 DEF Visits
    <2>3. row(0) = base
      BY DEF IsRow
    <2> HIDE DEF row
    <2>4. c[1 .. 0] = row(0) /\ 0 \in 0 .. n
      BY <2>2, <2>3
    <2>5. QED
      BY <2>4
  <1>3. ASSUME NEW k \in 0 .. n - 1, k \in P PROVE k + 1 \in P
    <2>1. k \in Nat /\ k + 1 \in 1 .. n /\ 1 .. k + 1 \in SUBSET (1 .. n) /\ 1 .. k + 1 # {}
      BY PrefixOf
    <2>2. /\ Max(1 .. k + 1) = k + 1
          /\ (1 .. k + 1) \ {Max(1 .. k + 1)} = 1 .. k
      BY <2>1, LastOf
    <2>3. PICK e, old : e = k + 1 /\ old = c[1 .. k]
      OBVIOUS
    <2>4. old = row(k)
      BY <1>3, <2>3
    <2>5. /\ e \in 1 .. n /\ old[e] = base[e] /\ DOMAIN old = 1 .. n
          /\ \A j \in 1 .. n : j # e => old[j] = row(e)[j]
          /\ row(e)[e] = h[e]
      BY <2>1, <2>3, <2>4
    <2>6. old[e] = base[e] => c[1 .. k + 1] = [old EXCEPT ![e] = h[e]]
      BY <2>1, <2>2, <2>3 DEF Visits
    <2>7. [old EXCEPT ![e] = h[e]] = row(e)
      BY <2>4, <2>5
    <2> HIDE DEF row
    <2>8. QED
      BY <2>1, <2>3, <2>5, <2>6, <2>7
  <1> HIDE DEF P
  <1>4. \A k \in 0 .. n : k \in P
    BY <1>2, <1>3, UpTo
  <1>5. c[1 .. n] = row(n)
    BY <1>4 DEF P
  <1>6. QED
    BY <1>5

\* add_* goes through its elements as the scalar loop does.
LEMMA SimdAddIs ==
    ASSUME NEW job, job.len \in Nat, NEW lanes \in Nat \ {0}
    PROVE  SimdAdd(lanes, job) = [j \in 1 .. job.len |-> <<"Add", At(job.a, j - 1), At(job.b, j - 1)>>]
  <1> DEFINE sw == Sweep(job.len, lanes)
             base == Fill(job.len, LAMBDA i : Garbage)
  <1>1. PICK n, h :
          /\ n = job.len
          /\ h = [j \in 1 .. n |-> <<"Add", At(job.a, j - 1), At(job.b, j - 1)>>]
    OBVIOUS
  <1>2. n \in Nat /\ IsRow(base, n) /\ DOMAIN sw = 1 .. n
        /\ \A e \in 1 .. n : sw[e].i = e - 1 /\ sw[e].i + 1 = e
    <2>1. InOrder(sw, n)
      BY <1>1, SweepIs
    <2>2. IsRow(base, n)
      BY <1>1 DEF IsRow, Fill
    <2> HIDE DEF sw, base
    <2>3. QED
      BY <1>1, <2>1, <2>2 DEF InOrder
  <1> DEFINE val(t) == <<"Add", At(job.a, t.i), At(job.b, t.i)>>
             Unrolled(f) == [s \in SUBSET (DOMAIN sw) |->
                                IF s = {} THEN base
                                ELSE [f[s \ {Max(s)}] EXCEPT ![sw[Max(s)].i + 1] = val(sw[Max(s)])]]
             c == CHOOSE f : f = Unrolled(f)
  <1>4. SimdAdd(lanes, job) = c[DOMAIN sw]
    BY Zenon DEF SimdAdd, FoldLeft, MapThenFoldSet
  <1> HIDE DEF sw, base
  <1>5. ASSUME NEW e \in 1 .. n PROVE sw[e].i + 1 = e /\ val(sw[e]) = h[e]
    BY <1>1, <1>2
  <1> HIDE DEF val
  <1>6. PICK w : w = Visited(n, base, h)
    OBVIOUS
  <1>7. w = Unrolled(w)
    <2>1. /\ w[{}] = base
          /\ \A s \in SUBSET (1 .. n) :
                s # {} => /\ Max(s) \in 1 .. n
                          /\ w[s \ {Max(s)}][Max(s)] = base[Max(s)]
                          /\ w[s] = [w[s \ {Max(s)}] EXCEPT ![Max(s)] = h[Max(s)]]
      <3>1. PICK x : x = base
        OBVIOUS
      <3>2. VisitsEach(n, x, h, w)
        BY <1>2, <1>6, <3>1, VisitedStep
      <3>3. QED
        BY <3>1, <3>2, Zenon DEF VisitsEach
    <2>2. ASSUME NEW s \in SUBSET (1 .. n)
          PROVE  w[s] = IF s = {} THEN base
                        ELSE [w[s \ {Max(s)}] EXCEPT ![sw[Max(s)].i + 1] = val(sw[Max(s)])]
      BY <1>5, <2>1
    <2>3. w = [s \in SUBSET (1 .. n) |-> w[s]]
      BY <1>6 DEF Visited
    <2>4. QED
      BY <1>2, <2>2, <2>3
  <1>8. c = Unrolled(c)
    BY <1>7, Zenon
  <1> HIDE DEF c
  <1>9. Visits(n, base, h, c)
    <2>1. c[{}] = base
      BY <1>8
    <2>2. ASSUME NEW s \in SUBSET (1 .. n), s # {}
          PROVE  c[s] = [c[s \ {Max(s)}] EXCEPT ![Max(s)] = h[Max(s)]]
      <3>1. Max(s) \in 1 .. n
        BY <1>2, <2>2, MaxIs
      <3>2. c[s] = [c[s \ {Max(s)}] EXCEPT ![sw[Max(s)].i + 1] = val(sw[Max(s)])]
        BY <1>2, <1>8, <2>2
      <3>3. QED
        BY <1>5, <3>1, <3>2
    <2>3. QED
      BY <2>1, <2>2 DEF Visits
  <1>10. c[1 .. n] = [j \in 1 .. n |-> h[j]]
    BY <1>2, <1>9, VisitsAll
  <1>11. QED
    BY <1>1, <1>2, <1>4, <1>10

\* relu_* does, if its vector maximum answers what the scalar one does.
LEMMA SimdReluIs ==
    ASSUME NEW job, job.len \in Nat, NEW lanes \in Nat \ {0}, NEW b,
           \A i \in 0 .. job.len - 1 : VectorMax(b, At(job.a, i)) = ScalarRelu(At(job.a, i))
    PROVE  SimdRelu(b, lanes, job) = [j \in 1 .. job.len |-> ScalarRelu(At(job.a, j - 1))]
  <1> DEFINE sw == Sweep(job.len, lanes)
             base == Fill(job.len, LAMBDA i : Garbage)
  <1>1. PICK n, h :
          /\ n = job.len
          /\ h = [j \in 1 .. n |-> ScalarRelu(At(job.a, j - 1))]
    OBVIOUS
  <1>2. n \in Nat /\ IsRow(base, n) /\ DOMAIN sw = 1 .. n
        /\ \A e \in 1 .. n : sw[e].i = e - 1 /\ sw[e].i + 1 = e
    <2>1. InOrder(sw, n)
      BY <1>1, SweepIs
    <2>2. IsRow(base, n)
      BY <1>1 DEF IsRow, Fill
    <2> HIDE DEF sw, base
    <2>3. QED
      BY <1>1, <2>1, <2>2 DEF InOrder
  <1> DEFINE val(t) == IF t.by = "vector" THEN VectorMax(b, At(job.a, t.i)) ELSE ScalarRelu(At(job.a, t.i))
             Unrolled(f) == [s \in SUBSET (DOMAIN sw) |->
                                IF s = {} THEN base
                                ELSE [f[s \ {Max(s)}] EXCEPT ![sw[Max(s)].i + 1] = val(sw[Max(s)])]]
             c == CHOOSE f : f = Unrolled(f)
  <1>4. SimdRelu(b, lanes, job) = c[DOMAIN sw]
    BY Zenon DEF SimdRelu, FoldLeft, MapThenFoldSet
  <1> HIDE DEF sw, base
  <1>5. ASSUME NEW e \in 1 .. n PROVE sw[e].i + 1 = e /\ val(sw[e]) = h[e]
    <2>1. e - 1 \in 0 .. job.len - 1 /\ sw[e].i = e - 1 /\ sw[e].i + 1 = e
      BY <1>1, <1>2
    <2>2. h[e] = ScalarRelu(At(job.a, e - 1))
      BY <1>1
    <2>3. val(sw[e]) = ScalarRelu(At(job.a, e - 1))
      BY <2>1, Zenon
    <2>4. QED
      BY <2>1, <2>2, <2>3, Zenon
  <1> HIDE DEF val
  <1>6. PICK w : w = Visited(n, base, h)
    OBVIOUS
  <1>7. w = Unrolled(w)
    <2>1. /\ w[{}] = base
          /\ \A s \in SUBSET (1 .. n) :
                s # {} => /\ Max(s) \in 1 .. n
                          /\ w[s \ {Max(s)}][Max(s)] = base[Max(s)]
                          /\ w[s] = [w[s \ {Max(s)}] EXCEPT ![Max(s)] = h[Max(s)]]
      <3>1. PICK x : x = base
        OBVIOUS
      <3>2. VisitsEach(n, x, h, w)
        BY <1>2, <1>6, <3>1, VisitedStep
      <3>3. QED
        BY <3>1, <3>2, Zenon DEF VisitsEach
    <2>2. ASSUME NEW s \in SUBSET (1 .. n)
          PROVE  w[s] = IF s = {} THEN base
                        ELSE [w[s \ {Max(s)}] EXCEPT ![sw[Max(s)].i + 1] = val(sw[Max(s)])]
      BY <1>5, <2>1
    <2>3. w = [s \in SUBSET (1 .. n) |-> w[s]]
      BY <1>6 DEF Visited
    <2>4. QED
      BY <1>2, <2>2, <2>3
  <1>8. c = Unrolled(c)
    BY <1>7, Zenon
  <1> HIDE DEF c
  <1>9. Visits(n, base, h, c)
    <2>1. c[{}] = base
      BY <1>8
    <2>2. ASSUME NEW s \in SUBSET (1 .. n), s # {}
          PROVE  c[s] = [c[s \ {Max(s)}] EXCEPT ![Max(s)] = h[Max(s)]]
      <3>1. Max(s) \in 1 .. n
        BY <1>2, <2>2, MaxIs
      <3>2. c[s] = [c[s \ {Max(s)}] EXCEPT ![sw[Max(s)].i + 1] = val(sw[Max(s)])]
        BY <1>2, <1>8, <2>2
      <3>3. QED
        BY <1>5, <3>1, <3>2
    <2>3. QED
      BY <2>1, <2>2 DEF Visits
  <1>10. c[1 .. n] = [j \in 1 .. n |-> h[j]]
    BY <1>2, <1>9, VisitsAll
  <1>11. QED
    BY <1>1, <1>2, <1>4, <1>10

-----------------------------------------------------------------------------
(* matmul, vectorised *)

\* One product of the row i of the output: of element kk of a's row and element
\* j of b's row kk.
Factors(job, i, kk, j) == <<At(job.a, i * job.ad[2] + kk), At(job.b, kk * job.bd[2] + j)>>

\* The row when b's row kk has been accumulated, and the whole row.
RowStep(lanes, job, i, kk, acc) ==
    FoldLeft(LAMBDA r, t : [r EXCEPT ![t.i + 1] = Append(@, Factors(job, i, kk, t.i))],
             acc, Sweep(job.bd[2], lanes))

RowOf(lanes, job, i) ==
    FoldLeft(LAMBDA acc, kk : RowStep(lanes, job, i, kk, acc),
             [j \in 1 .. job.bd[2] |-> <<>>], [kk \in 1 .. job.ad[2] |-> kk - 1])

\* matmul_* computes its output row by row.
LEMMA SimdMatMulRows ==
    ASSUME NEW job, NEW lanes
    PROVE  SimdMatMul(lanes, job)
             = [j \in 1 .. job.len |->
                   <<"Sum", At(RowOf(lanes, job, (j - 1) \div job.bd[2]), (j - 1) % job.bd[2])>>]
  BY Zenon DEF SimdMatMul, Fill, RowOf, RowStep, Factors

Accumulates(lanes, job, i, kk, acc) ==
    RowStep(lanes, job, i, kk, acc)
      = [j \in 1 .. job.bd[2] |-> Append(acc[j], Factors(job, i, kk, j - 1))]

\* One more factor for every element of the row.
LEMMA RowStepIs ==
    ASSUME NEW job, NEW n, n = job.bd[2], n \in Nat, NEW lanes \in Nat \ {0}, NEW i, NEW kk,
           NEW acc, IsRow(acc, n)
    PROVE  Accumulates(lanes, job, i, kk, acc)
  <1> DEFINE sw == Sweep(job.bd[2], lanes)
  <1>1. PICK h : h = [j \in 1 .. n |-> Append(acc[j], Factors(job, i, kk, j - 1))]
    OBVIOUS
  <1>2. DOMAIN sw = 1 .. n /\ \A e \in 1 .. n : sw[e].i = e - 1 /\ sw[e].i + 1 = e
    <2>1. InOrder(sw, n)
      BY SweepIs
    <2> HIDE DEF sw
    <2>2. QED
      BY <2>1 DEF InOrder
  <1> DEFINE val(row, t) == Append(row[t.i + 1], Factors(job, i, kk, t.i))
             Unrolled(f) == [s \in SUBSET (DOMAIN sw) |->
                                IF s = {} THEN acc
                                ELSE [f[s \ {Max(s)}] EXCEPT
                                        ![sw[Max(s)].i + 1] = val(f[s \ {Max(s)}], sw[Max(s)])]]
             c == CHOOSE f : f = Unrolled(f)
  <1>4. RowStep(lanes, job, i, kk, acc) = c[DOMAIN sw]
    BY Zenon DEF RowStep, FoldLeft, MapThenFoldSet
  <1> HIDE DEF sw
  <1>5. ASSUME NEW e \in 1 .. n, NEW row, row[e] = acc[e]
        PROVE  sw[e].i + 1 = e /\ val(row, sw[e]) = h[e]
    <2>1. sw[e].i = e - 1 /\ sw[e].i + 1 = e
      BY <1>2
    <2>2. h[e] = Append(acc[e], Factors(job, i, kk, e - 1))
      BY <1>1
    <2>3. QED
      BY <1>5, <2>1, <2>2, Zenon
  <1> HIDE DEF val
  <1>6. PICK w : w = Visited(n, acc, h)
    OBVIOUS
  <1>7. w = Unrolled(w)
    <2>1. VisitsEach(n, acc, h, w)
      BY <1>6, VisitedStep
    <2>2. ASSUME NEW s \in SUBSET (1 .. n), s # {}
          PROVE  w[s] = [w[s \ {Max(s)}] EXCEPT
                            ![sw[Max(s)].i + 1] = val(w[s \ {Max(s)}], sw[Max(s)])]
      <3>1. /\ Max(s) \in 1 .. n
            /\ w[s \ {Max(s)}][Max(s)] = acc[Max(s)]
            /\ w[s] = [w[s \ {Max(s)}] EXCEPT ![Max(s)] = h[Max(s)]]
        BY <2>1, <2>2 DEF VisitsEach
      <3>2. sw[Max(s)].i + 1 = Max(s) /\ val(w[s \ {Max(s)}], sw[Max(s)]) = h[Max(s)]
        BY <1>5, <3>1, Zenon
      <3>3. QED
        BY <3>1, <3>2, Zenon
    <2>3. w[{}] = acc
      BY <2>1 DEF VisitsEach
    <2>4. w = [s \in SUBSET (1 .. n) |-> w[s]]
      BY <1>6 DEF Visited
    <2>5. \A s \in SUBSET (1 .. n) :
            w[s] = IF s = {} THEN acc
                   ELSE [w[s \ {Max(s)}] EXCEPT
                            ![sw[Max(s)].i + 1] = val(w[s \ {Max(s)}], sw[Max(s)])]
      BY <2>2, <2>3, Zenon
    <2>6. QED
      BY <1>2, <2>4, <2>5, Zenon
  <1>8. c = Unrolled(c)
    BY <1>7, Zenon
  <1> HIDE DEF c
  <1>9. Visits(n, acc, h, c)
    <2>1. c[{}] = acc
      BY <1>8
    <2>2. ASSUME NEW s \in SUBSET (1 .. n), s # {}, c[s \ {Max(s)}][Max(s)] = acc[Max(s)]
          PROVE  c[s] = [c[s \ {Max(s)}] EXCEPT ![Max(s)] = h[Max(s)]]
      <3>1. Max(s) \in 1 .. n
        BY <2>2, MaxIs
      <3>2. c[s] = [c[s \ {Max(s)}] EXCEPT
                       ![sw[Max(s)].i + 1] = val(c[s \ {Max(s)}], sw[Max(s)])]
        BY <1>2, <1>8, <2>2
      <3>3. sw[Max(s)].i + 1 = Max(s) /\ val(c[s \ {Max(s)}], sw[Max(s)]) = h[Max(s)]
        BY <1>5, <2>2, <3>1, Zenon
      <3>4. QED
        BY <3>2, <3>3, Zenon
    <2>3. QED
      BY <2>1, <2>2, Zenon DEF Visits
  <1>10. c[1 .. n] = [j \in 1 .. n |-> h[j]]
    BY <1>9, VisitsAll
  <1>11. RowStep(lanes, job, i, kk, acc)
           = [j \in 1 .. n |-> Append(acc[j], Factors(job, i, kk, j - 1))]
    BY <1>1, <1>2, <1>4, <1>10
  <1>12. QED
    BY <1>11, Zenon DEF Accumulates

FactorSet(job) == {<<At(job.a, x), At(job.b, y)>> : x \in Int, y \in Int}

\* A product is of two elements of the operands.
LEMMA FactorsType ==
    ASSUME NEW job, NEW i \in Nat, NEW kk \in Nat, NEW j \in Nat,
           job.ad[2] \in Nat, job.bd[2] \in Nat
    PROVE  Factors(job, i, kk, j) \in FactorSet(job)
  <1>1. PICK k, n : k = job.ad[2] /\ n = job.bd[2]
    OBVIOUS
  <1>2. PICK x, y : x = i * k + kk /\ y = kk * n + j
    OBVIOUS
  <1>3. x \in Int /\ y \in Int
    BY <1>1, <1>2
  <1>4. Factors(job, i, kk, j) = <<At(job.a, x), At(job.b, y)>>
    BY <1>1, <1>2, Zenon DEF Factors
  <1>5. QED
    BY <1>3, <1>4 DEF FactorSet

\* One more at the end of a sequence given by its values.
LEMMA OneMore ==
    ASSUME NEW m \in Nat, NEW P, NEW g \in [1 .. m + 1 -> P]
    PROVE  Append([e \in 1 .. m |-> g[e]], g[m + 1]) = [e \in 1 .. m + 1 |-> g[e]]
  <1>1. PICK s, t : s = [e \in 1 .. m |-> g[e]] /\ t = Append(s, g[m + 1])
    OBVIOUS
  <1>2. s \in Seq(P) /\ Len(s) = m /\ g[m + 1] \in P
    BY <1>1
  <1>3. t \in Seq(P) /\ Len(t) = m + 1 /\ t[m + 1] = g[m + 1] /\ \A e \in 1 .. m : t[e] = s[e]
    BY <1>1, <1>2
  <1>4. \A e \in 1 .. m + 1 : t[e] = g[e]
    BY <1>1, <1>3
  <1>5. t = [e \in 1 .. m + 1 |-> t[e]]
    BY <1>3
  <1>6. QED
    BY <1>1, <1>4, <1>5

\* A row is accumulated: at each column, the products of its dot product in order.
RowIs(lanes, job, i, n, k) ==
    RowOf(lanes, job, i) = [j \in 1 .. n |-> [e \in 1 .. k |-> Factors(job, i, e - 1, j - 1)]]

\* The whole row has the products of its dot products, in order.
LEMMA RowOfIs ==
    ASSUME NEW job, NEW n, n = job.bd[2], n \in Nat, NEW k, k = job.ad[2], k \in Nat,
           NEW lanes \in Nat \ {0}, NEW i \in Nat
    PROVE  RowIs(lanes, job, i, n, k)
  <1> DEFINE ks == [kk \in 1 .. job.ad[2] |-> kk - 1]
             zero == [j \in 1 .. job.bd[2] |-> <<>>]
             Unrolled(f) == [s \in SUBSET (DOMAIN ks) |->
                                IF s = {} THEN zero
                                ELSE RowStep(lanes, job, i, ks[Max(s)], f[s \ {Max(s)}])]
             c == CHOOSE f : f = Unrolled(f)
  <1>1. RowOf(lanes, job, i) = c[DOMAIN ks]
    BY Zenon DEF RowOf, FoldLeft, MapThenFoldSet
  <1>2. /\ DOMAIN ks = 1 .. k /\ \A e \in 1 .. k : ks[e] = e - 1 /\ ks[e] \in Nat
        /\ zero = [j \in 1 .. n |-> <<>>]
    OBVIOUS
  <1> HIDE DEF ks, zero
  <1>3. PICK P : P = FactorSet(job)
    OBVIOUS
  <1> DEFINE V == [1 .. n -> Seq(P)]
             F == [p \in (1 .. k) \X V |-> RowStep(lanes, job, i, ks[p[1]], p[2])]
  <1>4. zero \in V
    BY <1>2
  <1>5. ASSUME NEW kk \in Nat, NEW acc \in V
        PROVE  /\ RowStep(lanes, job, i, kk, acc)
                    = [j \in 1 .. n |-> Append(acc[j], Factors(job, i, kk, j - 1))]
               /\ RowStep(lanes, job, i, kk, acc) \in V
    <2>1. IsRow(acc, n)
      BY DEF IsRow
    <2>2. RowStep(lanes, job, i, kk, acc)
            = [j \in 1 .. n |-> Append(acc[j], Factors(job, i, kk, j - 1))]
      <3>1. Accumulates(lanes, job, i, kk, acc)
        BY <2>1, RowStepIs
      <3>2. QED
        BY <3>1, Zenon DEF Accumulates
    <2>3. ASSUME NEW j \in 1 .. n PROVE Append(acc[j], Factors(job, i, kk, j - 1)) \in Seq(P)
      <3>1. j - 1 \in Nat
        OBVIOUS
      <3>2. PICK x : x = Factors(job, i, kk, j - 1)
        OBVIOUS
      <3>3. x \in P
        BY <1>3, <3>1, <3>2, FactorsType
      <3>4. acc[j] \in Seq(P)
        OBVIOUS
      <3>5. QED
        BY <3>2, <3>3, <3>4
    <2>4. QED
      BY <2>2, <2>3
  <1> HIDE DEF V
  <1>6. F \in [(1 .. k) \X V -> V]
    <2>1. \A p \in (1 .. k) \X V : p[1] \in 1 .. k /\ p[2] \in V
      OBVIOUS
    <2>2. \A p \in (1 .. k) \X V : RowStep(lanes, job, i, ks[p[1]], p[2]) \in V
      BY <1>2, <1>5, <2>1
    <2>3. QED
      BY <2>2
  <1>7. PICK it : IsFold(k, V, zero, F, it)
    <2> HIDE DEF F
    <2> QED BY <1>4, <1>6, FoldExists
  <1>8. it = Unrolled(it)
    <2>1. it \in [SUBSET (1 .. k) -> V]
      BY <1>7 DEF IsFold
    <2>2. ASSUME NEW s \in SUBSET (1 .. k), s # {}
          PROVE  it[s] = RowStep(lanes, job, i, ks[Max(s)], it[s \ {Max(s)}])
      <3>1. Max(s) \in 1 .. k
        BY <2>2, MaxIs
      <3>2. it[s \ {Max(s)}] \in V
        BY <2>1
      <3>3. it[s] = F[<<Max(s), it[s \ {Max(s)}]>>]
        BY <1>7, <2>2 DEF IsFold
      <3>4. PICK e, row : e = Max(s) /\ row = it[s \ {Max(s)}]
        OBVIOUS
      <3>5. F[<<e, row>>] = RowStep(lanes, job, i, ks[e], row)
        BY <3>1, <3>2, <3>4
      <3>6. QED
        BY <3>3, <3>4, <3>5, Zenon
    <2>3. it[{}] = zero
      BY <1>7 DEF IsFold
    <2>4. \A s \in SUBSET (1 .. k) :
             it[s] = IF s = {} THEN zero
                     ELSE RowStep(lanes, job, i, ks[Max(s)], it[s \ {Max(s)}])
      BY <2>2, <2>3, Zenon
    <2>5. QED
      BY <1>2, <2>1, <2>4
  <1>9. c = Unrolled(c)
    BY <1>8, Zenon
  <1> HIDE DEF c
  <1> DEFINE row(m) == [j \in 1 .. n |-> [e \in 1 .. m |-> Factors(job, i, e - 1, j - 1)]]
             Q == {m \in 0 .. k : c[1 .. m] = row(m)}
  <1>10. \A m \in Nat : row(m) \in V
    <2>1. ASSUME NEW m \in Nat, NEW j \in 1 .. n, NEW e \in 1 .. m
          PROVE  Factors(job, i, e - 1, j - 1) \in P
      <3>1. e - 1 \in Nat /\ j - 1 \in Nat
        OBVIOUS
      <3>2. QED
        BY <1>3, <3>1, FactorsType
    <2>2. QED
      BY <2>1 DEF V
  <1>11. 0 \in Q
    <2>1. 1 .. 0 = {} /\ 0 \in 0 .. k
      OBVIOUS
    <2>2. c[{}] = zero
      BY <1>9
    <2>3. row(0) = zero
      BY <1>2
    <2> HIDE DEF row
    <2>4. QED
      BY <2>1, <2>2, <2>3
  <1>12. ASSUME NEW m \in 0 .. k - 1, m \in Q PROVE m + 1 \in Q
    <2>1. m \in Nat /\ m + 1 \in 1 .. k /\ 1 .. m + 1 \in SUBSET (1 .. k) /\ 1 .. m + 1 # {}
      BY PrefixOf
    <2>2. /\ Max(1 .. m + 1) = m + 1
          /\ (1 .. m + 1) \ {Max(1 .. m + 1)} = 1 .. m
      BY <2>1, LastOf
    <2>3. c[1 .. m + 1] = RowStep(lanes, job, i, ks[m + 1], c[1 .. m])
      <3>1. c[1 .. m + 1] = RowStep(lanes, job, i, ks[Max(1 .. m + 1)],
                                    c[(1 .. m + 1) \ {Max(1 .. m + 1)}])
        BY <1>2, <1>9, <2>1
      <3>2. QED
        BY <2>2, <3>1, Zenon
    <2>4. c[1 .. m] = row(m) /\ ks[m + 1] = m
      BY <1>2, <1>12, <2>1
    <2>5. row(m) \in V
      BY <1>10, <2>1
    <2>6. c[1 .. m + 1] = [j \in 1 .. n |-> Append(row(m)[j], Factors(job, i, m, j - 1))]
      <3> HIDE DEF row
      <3> QED BY <1>5, <2>1, <2>3, <2>4, <2>5
    <2>7. ASSUME NEW j \in 1 .. n
          PROVE  Append(row(m)[j], Factors(job, i, m, j - 1)) = row(m + 1)[j]
      <3>1. PICK g : g = [e \in 1 .. m + 1 |-> Factors(job, i, e - 1, j - 1)]
        OBVIOUS
      <3>2. g \in [1 .. m + 1 -> P]
        <4>1. ASSUME NEW e \in 1 .. m + 1 PROVE Factors(job, i, e - 1, j - 1) \in P
          <5>1. e - 1 \in Nat /\ j - 1 \in Nat
            BY <2>1
          <5>2. QED
            BY <1>3, <5>1, FactorsType
        <4>2. QED
          BY <3>1, <4>1
      <3>3. Append([e \in 1 .. m |-> g[e]], g[m + 1]) = [e \in 1 .. m + 1 |-> g[e]]
        BY <2>1, <3>2, OneMore
      <3>4. [e \in 1 .. m |-> g[e]] = row(m)[j]
        <4>1. row(m)[j] = [e \in 1 .. m |-> Factors(job, i, e - 1, j - 1)]
          OBVIOUS
        <4>2. \A e \in 1 .. m : e \in 1 .. m + 1
          BY <2>1
        <4>3. \A e \in 1 .. m : g[e] = Factors(job, i, e - 1, j - 1)
          BY <3>1, <4>2, Zenon
        <4>4. QED
          BY <4>1, <4>3, Zenon
      <3>5. g[m + 1] = Factors(job, i, m, j - 1)
        BY <2>1, <3>1
      <3>6. [e \in 1 .. m + 1 |-> g[e]] = row(m + 1)[j]
        BY <2>1, <3>1
      <3>7. QED
        BY <3>3, <3>4, <3>5, <3>6, Zenon
    <2>8. row(m + 1) = [j \in 1 .. n |-> row(m + 1)[j]]
      OBVIOUS
    <2> HIDE DEF row
    <2>9. c[1 .. m + 1] = row(m + 1)
      BY <2>6, <2>7, <2>8
    <2>10. QED
      BY <2>1, <2>9
  <1> HIDE DEF Q
  <1>13. \A m \in 0 .. k : m \in Q
    BY <1>11, <1>12, UpTo
  <1>14. c[1 .. k] = row(k)
    BY <1>13 DEF Q
  <1>15. RowOf(lanes, job, i) = row(k)
    BY <1>1, <1>2, <1>14
  <1>16. QED
    BY <1>15, Zenon DEF RowIs

\* An element of an accumulated row is the scalar loop's dot product.
LEMMA DotIs ==
    ASSUME NEW job, NEW n, n = job.bd[2], n \in Nat, NEW k, k = job.ad[2], k \in Nat,
           NEW lanes \in Nat \ {0}, NEW q \in Nat, NEW r \in 0 .. n - 1
    PROVE  <<"Sum", At(RowOf(lanes, job, q), r)>> = Dot(job, q, r)
  <1>0. RowIs(lanes, job, q, n, k)
    BY RowOfIs
  <1>1. RowOf(lanes, job, q) = [j \in 1 .. n |-> [e \in 1 .. k |-> Factors(job, q, e - 1, j - 1)]]
    BY <1>0, Zenon DEF RowIs
  <1>2. r + 1 \in 1 .. n /\ (r + 1) - 1 = r
    OBVIOUS
  <1>3. At(RowOf(lanes, job, q), r) = [e \in 1 .. k |-> Factors(job, q, e - 1, r)]
    BY <1>1, <1>2, Zenon DEF At
  <1>4. ASSUME NEW e \in 1 .. k
        PROVE  Factors(job, q, e - 1, r) = <<At(job.a, q * k + e - 1), At(job.b, (e - 1) * n + r)>>
    <2>1. PICK x : x = q * k
      OBVIOUS
    <2>2. x \in Nat
      BY <2>1
    <2>3. x + (e - 1) = x + e - 1
      BY <2>2
    <2>4. QED
      BY <2>1, <2>3, Zenon DEF Factors
  <1>5. [e \in 1 .. k |-> Factors(job, q, e - 1, r)]
          = [kk \in 1 .. k |-> <<At(job.a, q * k + kk - 1), At(job.b, (kk - 1) * n + r)>>]
    BY <1>4, Zenon
  <1>6. Dot(job, q, r)
          = <<"Sum", [kk \in 1 .. k |-> <<At(job.a, q * k + kk - 1), At(job.b, (kk - 1) * n + r)>>]>>
    BY Zenon DEF Dot
  <1>7. QED
    BY <1>3, <1>5, <1>6, Zenon

\* matmul_* computes the dot products of the reference.
LEMMA SimdMatMulIs ==
    ASSUME NEW job, job.ad[2] \in Nat, job.ad[1] \in Nat, job.bd[2] \in Nat,
           InRows(job.len, job.ad[1], job.bd[2]), NEW lanes \in Nat \ {0}
    PROVE  SimdMatMul(lanes, job) = [j \in 1 .. job.len |->
                                        Dot(job, (j - 1) \div job.bd[2], (j - 1) % job.bd[2])]
  <1>1. PICK len, m, n, k : len = job.len /\ m = job.ad[1] /\ n = job.bd[2] /\ k = job.ad[2]
    OBVIOUS
  <1>2. m \in Nat /\ n \in Nat /\ k \in Nat /\ InRows(len, m, n)
    BY <1>1
  <1>3. ASSUME NEW j \in 1 .. len
        PROVE  <<"Sum", At(RowOf(lanes, job, (j - 1) \div n), (j - 1) % n)>>
                 = Dot(job, (j - 1) \div n, (j - 1) % n)
    <2>1. PICK i, q, r : i = j - 1 /\ q = i \div n /\ r = i % n
      OBVIOUS
    <2>2. i \in 0 .. len - 1
      BY <1>2, <2>1 DEF InRows
    <2>3. q \in 0 .. m - 1 /\ r \in 0 .. n - 1
      BY <1>2, <2>1, <2>2, RowColumnOf
    <2>4. q \in Nat
      BY <2>3
    <2>5. <<"Sum", At(RowOf(lanes, job, q), r)>> = Dot(job, q, r)
      BY <1>1, <1>2, <2>3, <2>4, DotIs
    <2>6. QED
      BY <2>1, <2>5, Zenon
  <1>4. SimdMatMul(lanes, job)
          = [j \in 1 .. job.len |->
                <<"Sum", At(RowOf(lanes, job, (j - 1) \div job.bd[2]), (j - 1) % job.bd[2])>>]
    BY SimdMatMulRows
  <1>5. ASSUME NEW j \in 1 .. job.len
        PROVE  <<"Sum", At(RowOf(lanes, job, (j - 1) \div job.bd[2]), (j - 1) % job.bd[2])>>
                 = Dot(job, (j - 1) \div job.bd[2], (j - 1) % job.bd[2])
    BY <1>1, <1>3, Zenon
  <1>6. QED
    BY <1>4, <1>5, Zenon

-----------------------------------------------------------------------------
(* The CPU's backends *)

\* The maximum of a vector with zero may be a NaN.
NanKept(b, job) == job.op = "relu" /\ "nan" \in ToSet(job.a) /\ b \in {"Neon", "WasmSimd"}

\* A vector kernel writes what the reference does.
LEMMA KernelIs ==
    ASSUME NEW job, IsJob(job), job.op \in {"matmul", "add", "relu"}, Naive(job).err = None,
           NEW lanes \in Nat \ {0}, NEW b, ~NanKept(b, job)
    PROVE  Naive(job) = Writes(SimdKernel(b, lanes, job))
  <1>0. job.len \in Nat /\ job.a \in Seq(ToSet(job.a))
    BY JobTypes
  <1>1. CASE job.op = "matmul"
    <2>1. job.ad \in [1 .. 2 -> Nat] /\ job.bd \in [1 .. 2 -> Nat]
      BY <1>1, JobTypes
    <2>2. job.ad[1] \in Nat /\ job.ad[2] \in Nat /\ job.bd[2] \in Nat
      BY <2>1
    <2>3. /\ Naive(job) = Writes([j \in 1 .. job.len |->
                                    Dot(job, (j - 1) \div job.bd[2], (j - 1) % job.bd[2])])
          /\ InRows(job.len, job.ad[1], job.bd[2])
      BY <1>1, <2>1, MatMulIs, Zenon
    <2>4. Naive(job) = Writes(SimdMatMul(lanes, job))
      BY <2>2, <2>3, SimdMatMulIs, Zenon
    <2>5. SimdKernel(b, lanes, job) = SimdMatMul(lanes, job)
      BY <1>1 DEF SimdKernel
    <2>6. QED
      BY <2>4, <2>5
  <1>2. CASE job.op = "add"
    <2>1. Naive(job) = Writes(SimdAdd(lanes, job))
      BY <1>0, <1>2, AddIs, SimdAddIs, Zenon
    <2>2. SimdKernel(b, lanes, job) = SimdAdd(lanes, job)
      BY <1>2 DEF SimdKernel
    <2>3. QED
      BY <2>1, <2>2
  <1>3. CASE job.op = "relu"
    <2>1. /\ Naive(job) = Writes([j \in 1 .. job.len |-> ScalarRelu(At(job.a, j - 1))])
          /\ job.len = Len(job.a)
      BY <1>3, ReluIs, Zenon
    <2>2. \A i \in 0 .. job.len - 1 : VectorMax(b, At(job.a, i)) = ScalarRelu(At(job.a, i))
      <3>1. CASE b \in {"Neon", "WasmSimd"}
        <4>1. "nan" \notin ToSet(job.a)
          BY <1>3, <3>1, Zenon DEF NanKept
        <4>2. \A i \in 0 .. job.len - 1 : At(job.a, i) # "nan"
          BY <1>0, <2>1, <4>1, NoNan, Zenon
        <4>3. QED
          BY <4>2, Zenon DEF VectorMax
      <3>2. CASE b \notin {"Neon", "WasmSimd"}
        BY <3>2, Zenon DEF VectorMax
      <3>3. QED
        BY <3>1, <3>2
    <2>3. SimdRelu(b, lanes, job) = [j \in 1 .. job.len |-> ScalarRelu(At(job.a, j - 1))]
      BY <1>0, <2>2, SimdReluIs, Zenon
    <2>4. SimdKernel(b, lanes, job) = SimdRelu(b, lanes, job)
      BY <1>3 DEF SimdKernel
    <2>5. QED
      BY <2>1, <2>3, <2>4, Zenon
  <1>4. QED
    BY <1>1, <1>2, <1>3

\* A backend with vector kernels answers as the reference, and never meets an
\* instruction that its CPU does not have.
LEMMA SimdIs ==
    ASSUME NEW m \in Machines, NEW b \in {"Avx2", "Avx512", "Neon", "WasmSimd"},
           NEW lanes \in Nat \ {0}, NEW job, IsJob(job), ~NanKept(b, job)
    PROVE  Simd(m, b, lanes, job) = Naive(job)
  <1>1. CASE job.op \notin {"matmul", "add", "relu"} \/ ~IsAvailable(m, b)
    BY <1>1 DEF Simd
  <1>2. CASE job.op \in {"matmul", "add", "relu"} /\ IsAvailable(m, b)
    <2>1. Simd(m, b, lanes, job) = Vectorised(m, b, lanes, job)
      BY <1>2 DEF Simd
    <2>2. Feature[b] \in m.cpu
      <3>1. m.built \subseteq m.cpu
        BY MachinesAssumption
      <3>2. CASE b \in {"Avx2", "Avx512"}
        <4>1. Feature[b] \in (IF m.std THEN m.cpu ELSE m.built)
          BY <1>2, <3>2 DEF IsAvailable
        <4>2. QED
          BY <3>1, <4>1
      <3>3. CASE b = "Neon"
        <4>1. Feature[b] \in m.built
          BY <1>2, <3>3 DEF IsAvailable
        <4>2. QED
          BY <3>1, <4>1
      <3>4. CASE b = "WasmSimd"
        <4>1. Feature[b] \in m.built
          BY <1>2, <3>4 DEF IsAvailable
        <4>2. QED
          BY <3>1, <4>1
      <3>5. QED
        BY <3>2, <3>3, <3>4
    <2>3. CASE Naive(job).err # None
      <3>1. Naive(job) = Fails(Naive(job).err)
        BY <2>3, NaiveIs, Zenon
      <3>2. Vectorised(m, b, lanes, job) = Fails(Naive(job).err)
        BY <2>2, <2>3, Zenon DEF Vectorised
      <3>3. QED
        BY <2>1, <3>1, <3>2, Zenon
    <2>4. CASE Naive(job).err = None
      <3>1. Naive(job) = Writes(SimdKernel(b, lanes, job))
        BY <1>2, <2>4, KernelIs
      <3>2. Vectorised(m, b, lanes, job) = Writes(SimdKernel(b, lanes, job))
        BY <2>2, <2>4, Zenon DEF Vectorised
      <3>3. QED
        BY <2>1, <3>1, <3>2, Zenon
    <2>5. QED
      BY <2>3, <2>4
  <1>3. QED
    BY <1>1, <1>2

\* Whatever backend a build has answers as the reference.
LEMMA DispatchedIs ==
    ASSUME NEW m \in Machines, NEW b \in AnyBackend(m), NEW job, IsJob(job), ~NanKept(b, job)
    PROVE  Dispatched(m, b, job) = Naive(job)
  <1>1. b \in {"Naive", "Avx2", "Avx512", "Neon", "WasmSimd"}
    BY DEF AnyBackend
  <1>2. CASE b = "Naive"
    BY <1>2 DEF Dispatched
  <1>3. CASE b = "Avx2"
    <2>1. Dispatched(m, b, job) = Simd(m, b, 8, job)
      BY <1>3 DEF Dispatched, RunAvx2
    <2>2. QED
      BY <1>3, <2>1, SimdIs
  <1>4. CASE b = "Avx512"
    <2>1. Dispatched(m, b, job) = Simd(m, b, 16, job)
      BY <1>4 DEF Dispatched, RunAvx512
    <2>2. QED
      BY <1>4, <2>1, SimdIs
  <1>5. CASE b = "Neon"
    <2>1. Dispatched(m, b, job) = Simd(m, b, 4, job)
      BY <1>5 DEF Dispatched, RunNeon
    <2>2. QED
      BY <1>5, <2>1, SimdIs
  <1>6. CASE b = "WasmSimd"
    <2>1. Dispatched(m, b, job) = Simd(m, b, 4, job)
      BY <1>6 DEF Dispatched, RunWasm
    <2>2. QED
      BY <1>6, <2>1, SimdIs
  <1>7. QED
    BY <1>1, <1>2, <1>3, <1>4, <1>5, <1>6

\* What a call of webgpu.rs reads back is what its own dispatch computed, whoever else
\* uses the device: its copy ran after its dispatch, and its callback says Ok only
\* after its copy.
THEOREM ResultsOwned == Spec => []ResultsInv
<1>1. QED
    BY InitEstablishes, NextKeeps, ResultsInit, ResultsKeep, PTL DEF Spec

\* On every backend of dispatch.rs, and for any number of callers of one device, a call
\* that returns answers what naive.rs answers: the same refusal, or the same output;
\* a relu of a NaN on NEON, WebAssembly and WebGPU excepted.
THEOREM AnswersLikeNaive == Spec => []AnswersAsNaive
<1>1. ResultsInv => AnswersAsNaive
  <2> SUFFICES ASSUME ResultsInv, NEW c \in Callers, pc[c] = "answered", ~NanDiffers(c)
               PROVE  answer[c] = Naive(Job(c))
      BY DEF AnswersAsNaive
  <2>1. PICK job : job = Job(c)
      OBVIOUS
  <2>2. machine \in Machines /\ IsJob(job)
      BY <2>1, JobsAssumption DEF ResultsInv, CallsFixed, Job
  <2>3. AnswersOf(c)
      BY DEF ResultsInv, AnswersJustified
  <2>4. CASE call[c].backend \in AnyBackend(machine)
               /\ answer[c] = Dispatched(machine, call[c].backend, job)
    <3>1. ~NanKept(call[c].backend, job)
        BY <2>1, Zenon DEF NanKept, NanDiffers
    <3>2. PICK m, b : m = machine /\ b = call[c].backend
        OBVIOUS
    <3>3. Dispatched(m, b, job) = Naive(job)
        BY <2>2, <2>4, <3>1, <3>2, DispatchedIs
    <3>4. QED
        BY <2>1, <2>4, <3>2, <3>3, Zenon
  <2>5. CASE Naive(job).err # None /\ answer[c] = Fails(Naive(job).err)
      BY <2>1, <2>2, <2>5, NaiveIs, Zenon
  <2>6. CASE Naive(job).err = None /\ job.len = 0 /\ answer[c] = Writes(<<>>)
      BY <2>1, <2>2, <2>6, NaiveIs, Zenon
  <2>7. CASE /\ call[c].backend = "WebGpu" /\ Naive(job).err = None /\ job.len > 0
             /\ \E r \in Results(c) : answer[c] = Writes(r)
    <3>1. Plain(job)
        BY <2>1, <2>7, Zenon DEF Plain, NanDiffers
    <3>2. PICK nanMax : answer[c] = Writes(Computed(job, nanMax))
        BY <2>1, <2>7 DEF Results
    <3>3. Naive(job) = Writes(Computed(job, nanMax))
        BY <2>2, <2>7, <3>1, DeviceComputes
    <3>4. QED
        BY <2>1, <3>2, <3>3, Zenon
  <2>8. QED
      BY <2>1, <2>3, <2>4, <2>5, <2>6, <2>7, Zenon DEF AnswersOf
<1>2. QED
    BY <1>1, ResultsOwned, PTL
=============================================================================
