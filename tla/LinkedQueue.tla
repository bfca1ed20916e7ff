----------------------------- MODULE LinkedQueue -----------------------------
(***************************************************************************)
(* The linked queue that every queue.c of the repository carries, and the  *)
(* reader and writer threads that use it.  This module holds the body of   *)
(* queue_add and queue_get, one action per access to memory that another   *)
(* thread may be using; the modules that extend it add what each variant   *)
(* puts around the body (nothing, a lock, condition variables,             *)
(* semaphores).                                                            *)
(*                                                                         *)
(* The values 0, 1, 2, ... the writer adds are kept modulo Modulus.  Of    *)
(* the statistics, the model keeps balance = add_count - get_count; the    *)
(* counters of attempts feed nothing but a printf and are left out.        *)
(***************************************************************************)
EXTENDS Integers, FiniteSets, Sequences

CONSTANTS Writers,    \* threads that call queue_add
          Readers,    \* threads that call queue_get
          Node,       \* the qnode_t blocks malloc can hand out
          NULL,
          MaxCount,   \* q->max_count
          Modulus,    \* bound: values are counted modulo this
          ResetsLast  \* does queue_get clear q->last on an empty list (src/2.4)?

ASSUME QueueAssumption ==
  /\ IsFiniteSet(Writers) /\ IsFiniteSet(Readers)
  /\ NULL \notin Node
  /\ MaxCount \in Nat \ {0}
  /\ Modulus \in Nat /\ Modulus > MaxCount
  /\ ResetsLast \in BOOLEAN

Threads == Writers \cup Readers
Values == 0 .. Modulus - 1
Succ(v) == (v + 1) % Modulus

VARIABLES first, last,   \* q->first, q->last
          count,         \* q->count
          balance,       \* q->add_count - q->get_count
          node,          \* the contents of each block
          heap,          \* the blocks malloc has handed out
          pc,            \* where each thread is
          ptr,           \* the local new (queue_add) or tmp (queue_get)
          next,          \* q->first->next, read by queue_get
          reg,           \* q->count, read by count++ or count--
          val,           \* the value queue_get has stored in *val
          i,             \* the writer's i
          expected,      \* the reader's expected
          misordered,    \* a reader has printed ERROR
          fault          \* "none", or how the process died

list == <<first, last, node, heap>>
numbers == <<count, balance>>
locals == <<ptr, next, reg, val>>
clients == <<i, expected, misordered>>
queueVars == <<list, numbers, pc, locals, clients, fault>>

AddLabels == {"add_assert", "add_test", "add_malloc", "add_link", "add_first",
              "add_append", "add_advance", "add_load", "add_store", "add_ok", "add_full"}
GetLabels == {"get_assert", "get_test", "get_read", "get_unlink", "get_free",
              "get_load", "get_store", "get_ok", "get_empty"}

Go(t, l) == pc' = [pc EXCEPT ![t] = l]

(* The process dies: nothing else happens. *)
Die(how) == fault' = how /\ UNCHANGED pc

Blank == [val |-> 0, next |-> NULL]

QueueInit ==
  /\ first = NULL /\ last = NULL
  /\ count = 0 /\ balance = 0
  /\ node = [n \in Node |-> Blank]
  /\ heap = {}
  /\ pc = [t \in Threads |-> "idle"]
  /\ ptr = [t \in Threads |-> NULL]
  /\ next = [t \in Threads |-> NULL]
  /\ reg = [t \in Threads |-> 0]
  /\ val = [t \in Threads |-> 0]
  /\ i = [t \in Writers |-> 0]
  /\ expected = [t \in Readers |-> 0]
  /\ misordered = FALSE
  /\ fault = "none"
-----------------------------------------------------------------------------
(* queue_add *)

AddAssert(t) ==
  /\ pc[t] = "add_assert"
  /\ IF count <= MaxCount THEN Go(t, "add_test") /\ UNCHANGED fault ELSE Die("assert")
  /\ UNCHANGED <<list, numbers, locals, clients>>

(* Mutant: the test for a full queue is off by one. *)
AddTestOffByOne(t) ==
  /\ pc[t] = "add_test"
  /\ Go(t, IF count > MaxCount THEN "add_full" ELSE "add_malloc")
  /\ UNCHANGED <<list, numbers, locals, clients, fault>>

AddTest(t) ==
  /\ pc[t] = "add_test"
  /\ Go(t, IF count = MaxCount THEN "add_full" ELSE "add_malloc")
  /\ UNCHANGED <<list, numbers, locals, clients, fault>>

(* The new node is private until it is linked, so it is filled in here. *)
AddMalloc(t) ==
  /\ pc[t] = "add_malloc"
  /\ \/ /\ heap = Node
        /\ Die("abort")
        /\ UNCHANGED <<list, ptr>>
     \/ \E n \in Node \ heap :
          /\ heap' = heap \cup {n}
          /\ node' = [node EXCEPT ![n] = [val |-> i[t], next |-> NULL]]
          /\ ptr' = [ptr EXCEPT ![t] = n]
          /\ Go(t, "add_link")
          /\ UNCHANGED <<first, last, fault>>
  /\ UNCHANGED <<numbers, next, reg, val, clients>>

(* Mutant: every node is linked as if the list were empty. *)
LinkAsFirst(t) ==
  /\ pc[t] = "add_link"
  /\ Go(t, "add_first")
  /\ UNCHANGED <<list, numbers, locals, clients, fault>>

AddLink(t) ==
  /\ pc[t] = "add_link"
  /\ Go(t, IF first = NULL THEN "add_first" ELSE "add_append")
  /\ UNCHANGED <<list, numbers, locals, clients, fault>>

(* Only queue_add uses q->last, so it is written together with what is shared. *)
AddFirst(t) ==
  /\ pc[t] = "add_first"
  /\ first' = ptr[t] /\ last' = ptr[t]
  /\ Go(t, "add_load")
  /\ UNCHANGED <<node, heap, numbers, locals, clients, fault>>

(* q->last may be a block that has been freed: the store then lands there. *)
AddAppend(t) ==
  /\ pc[t] = "add_append"
  /\ IF last = NULL
       THEN Die("segv") /\ UNCHANGED list
       ELSE /\ node' = [node EXCEPT ![last].next = ptr[t]]
            /\ Go(t, "add_advance")
            /\ UNCHANGED <<first, last, heap, fault>>
  /\ UNCHANGED <<numbers, locals, clients>>

(* q->last = q->last->next *)
AddAdvance(t) ==
  /\ pc[t] = "add_advance"
  /\ last' = node[last].next
  /\ Go(t, "add_load")
  /\ UNCHANGED <<first, node, heap, numbers, locals, clients, fault>>

AddLoad(t) ==
  /\ pc[t] = "add_load"
  /\ reg' = [reg EXCEPT ![t] = count]
  /\ Go(t, "add_store")
  /\ UNCHANGED <<list, numbers, ptr, next, val, clients, fault>>

AddStore(t) ==
  /\ pc[t] = "add_store"
  /\ count' = reg[t] + 1
  /\ balance' = balance + 1
  /\ Go(t, "add_ok")
  /\ UNCHANGED <<list, locals, clients, fault>>

AddBody(t) ==
  AddAssert(t) \/ AddTest(t) \/ AddMalloc(t) \/ AddLink(t) \/ AddFirst(t)
    \/ AddAppend(t) \/ AddAdvance(t) \/ AddLoad(t) \/ AddStore(t)
-----------------------------------------------------------------------------
(* queue_get *)

GetAssert(t) ==
  /\ pc[t] = "get_assert"
  /\ IF count >= 0 THEN Go(t, "get_test") /\ UNCHANGED fault ELSE Die("assert")
  /\ UNCHANGED <<list, numbers, locals, clients>>

GetTest(t) ==
  /\ pc[t] = "get_test"
  /\ Go(t, IF count = 0 THEN "get_empty" ELSE "get_read")
  /\ UNCHANGED <<list, numbers, locals, clients, fault>>

(* Reads q->first, then the two fields of the node it points to. *)
GetRead(t) ==
  /\ pc[t] = "get_read"
  /\ IF first = NULL
       THEN Die("segv") /\ UNCHANGED locals
       ELSE /\ ptr' = [ptr EXCEPT ![t] = first]
            /\ val' = [val EXCEPT ![t] = node[first].val]
            /\ next' = [next EXCEPT ![t] = node[first].next]
            /\ Go(t, "get_unlink")
            /\ UNCHANGED <<reg, fault>>
  /\ UNCHANGED <<list, numbers, clients>>

(* Mutant: queue_get frees the first node and leaves it on the list. *)
UnlinkNothing(t) ==
  /\ pc[t] = "get_unlink"
  /\ Go(t, "get_free")
  /\ UNCHANGED <<list, numbers, locals, clients, fault>>

GetUnlink(t) ==
  /\ pc[t] = "get_unlink"
  /\ first' = next[t]
  /\ last' = IF ResetsLast /\ next[t] = NULL THEN NULL ELSE last
  /\ Go(t, "get_free")
  /\ UNCHANGED <<node, heap, numbers, locals, clients, fault>>

(* free overwrites what the block held: its next is no block any more, which *)
(* NULL stands for.                                                          *)
GetFree(t) ==
  /\ pc[t] = "get_free"
  /\ heap' = heap \ {ptr[t]}
  /\ node' = [node EXCEPT ![ptr[t]] = Blank]
  /\ Go(t, "get_load")
  /\ UNCHANGED <<first, last, numbers, locals, clients, fault>>

GetLoad(t) ==
  /\ pc[t] = "get_load"
  /\ reg' = [reg EXCEPT ![t] = count]
  /\ Go(t, "get_store")
  /\ UNCHANGED <<list, numbers, ptr, next, val, clients, fault>>

GetStore(t) ==
  /\ pc[t] = "get_store"
  /\ count' = reg[t] - 1
  /\ balance' = balance - 1
  /\ Go(t, "get_ok")
  /\ UNCHANGED <<list, locals, clients, fault>>

GetBody(t) ==
  GetAssert(t) \/ GetTest(t) \/ GetRead(t) \/ GetUnlink(t) \/ GetFree(t)
    \/ GetLoad(t) \/ GetStore(t)

Body(t) == AddBody(t) \/ GetBody(t)
-----------------------------------------------------------------------------
(* The loops of the writer and the reader, entered with the result of the call. *)

(* The locals of queue_add and queue_get go out of scope; val is the reader's. *)
LeaveScope(t) ==
  /\ Go(t, "idle")
  /\ ptr' = [ptr EXCEPT ![t] = NULL]
  /\ next' = [next EXCEPT ![t] = NULL]
  /\ reg' = [reg EXCEPT ![t] = 0]
  /\ UNCHANGED <<list, numbers, val, fault>>

(* Mutant: the writer goes on to the next value when the queue was full. *)
WriterSkips(t, ok) ==
  /\ i' = [i EXCEPT ![t] = Succ(@)]
  /\ LeaveScope(t)
  /\ UNCHANGED <<expected, misordered>>

WriterReturn(t, ok) ==
  /\ i' = IF ok THEN [i EXCEPT ![t] = Succ(@)] ELSE i
  /\ LeaveScope(t)
  /\ UNCHANGED <<expected, misordered>>

ReaderReturn(t, ok) ==
  /\ misordered' = (misordered \/ (ok /\ expected[t] # val[t]))
  /\ expected' = IF ok THEN [expected EXCEPT ![t] = Succ(val[t])] ELSE expected
  /\ LeaveScope(t)
  /\ UNCHANGED i

(* A thread at the end of the body returns to the loop that called it. *)
Return(t) ==
  \/ pc[t] \in {"add_ok", "add_full"} /\ WriterReturn(t, pc[t] = "add_ok")
  \/ pc[t] \in {"get_ok", "get_empty"} /\ ReaderReturn(t, pc[t] = "get_ok")

Call(t, l) == Go(t, l) /\ UNCHANGED <<list, numbers, locals, clients, fault>>
-----------------------------------------------------------------------------
(* Reading the list: node k of the list, and the blocks that are on it. *)

At[k \in Nat] ==
  IF k = 0 THEN first ELSE IF At[k - 1] = NULL THEN NULL ELSE node[At[k - 1]].next

Size == Cardinality({k \in 0 .. Cardinality(Node) : At[k] # NULL})

Linked == {At[k] : k \in 0 .. Size - 1}

ThreadsAt(labels) == {t \in Threads : pc[t] \in labels}

(* Blocks a thread owns that are not on the list: not yet, or no longer. *)
Private == {ptr[t] : t \in ThreadsAt({"add_link", "add_first", "add_append", "get_free"})}

(* The list as a sequence of values.  A reader that has read the head has     *)
(* taken it, although it has not unlinked the node yet.                      *)
Items ==
  LET values == [k \in 1 .. Size |-> node[At[k - 1]].val]
  IN IF ThreadsAt({"get_unlink"}) = {} THEN values ELSE Tail(values)

(* A writer has sent its value once the node is linked, before i++. *)
Sent == [w \in Writers |->
  IF pc[w] \in {"add_advance", "add_load", "add_store", "add_ok"} THEN Succ(i[w]) ELSE i[w]]

Received == [r \in Readers |-> val[r]]

Fifo == INSTANCE BoundedFifo
  WITH Capacity <- MaxCount, items <- Items, sent <- Sent, received <- Received
-----------------------------------------------------------------------------
QueueTypeOK(labels) ==
  /\ first \in Node \cup {NULL} /\ last \in Node \cup {NULL}
  /\ count \in Int /\ balance \in Int
  /\ node \in [Node -> [val : Values, next : Node \cup {NULL}]]
  /\ heap \subseteq Node
  /\ pc \in [Threads -> labels]
  /\ ptr \in [Threads -> Node \cup {NULL}]
  /\ next \in [Threads -> Node \cup {NULL}]
  /\ reg \in [Threads -> Int]
  /\ val \in [Threads -> Values]
  /\ i \in [Writers -> Values]
  /\ expected \in [Readers -> Values]
  /\ misordered \in BOOLEAN
  /\ fault \in {"none", "assert", "segv", "abort", "uaf"}

(* No assert fails, no NULL pointer is followed, malloc does not run dry and *)
(* nobody touches a queue that has been freed.                               *)
NoFault == fault = "none"

(* The reader receives 0, 1, 2, ... and never prints its ERROR line.         *)
InOrder == ~misordered

(* The list, the counters and the heap tell the same story at every step of  *)
(* queue_add and queue_get: count lags behind the list only by the nodes     *)
(* being linked or unlinked at the moment, q->last is the last node but      *)
(* while one is appended, no node is freed while linked and none is lost.    *)
(* So no assert fails, no NULL pointer is followed and malloc does not run   *)
(* dry.                                                                      *)
Consistent ==
  /\ fault = "none"
  /\ count = Size - Cardinality(ThreadsAt({"add_advance", "add_load", "add_store"}))
                  + Cardinality(ThreadsAt({"get_free", "get_load", "get_store"}))
  /\ balance = count
  /\ Cardinality(Linked) = Size
  /\ Linked \cap Private = {}
  /\ heap = Linked \cup Private
  /\ Size > 0 /\ ThreadsAt({"add_advance"}) = {} => last = At[Size - 1]
  /\ ResetsLast /\ Size = 0 => last = NULL

(* The queue is a bounded FIFO for whoever calls it.                         *)
ImplementsFifo == Fifo!FifoSpec
=============================================================================
