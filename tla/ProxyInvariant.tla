--------------------------- MODULE ProxyInvariant ---------------------------
(***************************************************************************)
(* The inductive invariant of the three proxies.  It says of every entry   *)
(* what its fetcher, at the label where it is, has put there, of every     *)
(* client what it holds and how much it may have sent, and of the table    *)
(* that there is always a block for the next entry.                        *)
(***************************************************************************)
EXTENDS MCProxies

Used(e) == entry[e].url # None

(* The labels that the fetchers and the clients of a program have.           *)
FetcherLabels ==
  IF program = "main"
    THEN {"none", "recv", "lock", "evict", "scan", "grow", "store", "done", "signal", "exit"}
    ELSE {"none", "recv", "refuse", "evict", "scan", "grow", "body", "more", "done", "signal",
          "exit"}

ClientLabels ==
  IF program = "main"
    THEN {"request", "hit", "miss", "insert", "loop", "waiting", "send", "leave", "drop",
          "direct", "closed"}
    ELSE {"request", "hit", "miss", "loop", "block", "waiting", "send", "sent", "stream",
          "leave", "drop", "closed"}

(* Those at which a fetcher holds the lock of its entry.                     *)
LockLabels ==
  CASE program = "main" -> {"evict", "scan", "grow", "store", "signal"}
    [] program = "main1" -> {"signal"}
    [] OTHER -> {"evict", "scan", "grow", "signal"}

(* Those at which a client has an entry, and those before it has any of it.  *)
Serving == {"hit", "loop", "block", "waiting", "send", "sent", "stream", "leave", "drop"}
Early == {"hit", "loop", "block", "waiting"}

(* The fetcher has set complete.                                             *)
Ended(e) == fetcher[e] \in {"signal", "exit"}

(* Which values the variables have; TypeOK of the model, and what it leaves  *)
(* open: any process may have an entry's lock as far as its type goes.       *)
EntryRecord == [url : Urls \cup {None}, size : Nat, capacity : Nat,
                complete : BOOLEAN, cacheable : BOOLEAN, refcount : Int]

SizeType == total_size \in [Entry -> Nat]

TypesOK ==
  /\ TypeOK /\ SizeType
  /\ elock \in [Entry -> Clients \cup Entry \cup {None}]
  /\ program \in {"main", "main1", "main2"}
-----------------------------------------------------------------------------
(* An entry exists from the start of its fetcher, is complete from its last  *)
(* critical section on and evicted only then; it never has more room than    *)
(* the cache, and its fetcher holds its lock where it should.                *)
EntryOK(e) ==
  /\ fetcher[e] \in FetcherLabels
  /\ fetcher[e] = "none" <=> ~Used(e)
  /\ ~Used(e) => entry[e] = Unused /\ received[e] = 0
  /\ entry[e].complete <=> Ended(e)
  /\ e \in freed => Ended(e)
  /\ entry[e].size <= entry[e].capacity /\ entry[e].capacity <= CACHE_MAX_BYTES
  /\ elock[e] = e <=> fetcher[e] \in LockLabels

(* main.c stores what it receives part by part, with room for it, and gives  *)
(* the room of an answer back that it cannot keep.                           *)
MainEntry(e) ==
  /\ ~entry[e].cacheable => entry[e].size = 0 /\ entry[e].capacity = 0
  /\ fetcher[e] \in {"evict", "scan", "grow"} => entry[e].cacheable
  /\ fetcher[e] = "store" /\ entry[e].cacheable => entry[e].size < entry[e].capacity
  /\ entry[e].cacheable =>
       received[e] = entry[e].size +
         IF fetcher[e] \in {"lock", "evict", "scan", "grow", "store"} THEN 1 ELSE 0

(* main1.c and main2.c take the room for all of it at the headers; what has  *)
(* come since then is stored unless there was more of it than was announced. *)
HeaderEntry(e) ==
  /\ fetcher[e] \in {"recv", "refuse", "evict", "scan", "grow"} =>
       entry[e].capacity = 0 /\ entry[e].size = 0
  /\ fetcher[e] = "recv" => received[e] = 0
  /\ fetcher[e] \in {"evict", "scan", "grow"} => total_size[e] >= 2 /\ received[e] >= 1
  /\ fetcher[e] \in {"recv", "evict", "scan", "grow", "body", "more"} => entry[e].cacheable
  /\ fetcher[e] = "body" => entry[e].size = 1 /\ received[e] >= 1
  /\ fetcher[e] \in {"more", "done", "signal", "exit"} /\ entry[e].cacheable
       /\ received[e] <= entry[e].capacity => received[e] = entry[e].size

(* A client has an entry from its lookup to its end, the lock of the table   *)
(* or of its entry only where it should, and no other entry's.               *)
ClientOK(c) ==
  /\ pc[c] \in ClientLabels
  /\ tablelock = c <=> pc[c] = "hit"
  /\ pc[c] \in {"request", "miss", "insert"} => mine[c] = None /\ offset[c] = 0
  /\ pc[c] \in Serving => mine[c] \in Entry
  /\ mine[c] \in Entry => Used(mine[c])
  /\ pc[c] \in {"drop", "block"} => elock[mine[c]] = c
  /\ \A e \in Entry : elock[e] = c => pc[c] \in {"drop", "block"} /\ mine[c] = e

(* A client never sends more of a kept answer than is there, and leaves      *)
(* without a failure only when the entry is complete and all of it is sent.  *)
ServedOK(c) ==
  /\ pc[c] \notin {"stream", "leave", "drop", "direct", "closed"} => outcome[c] = "none"
  /\ pc[c] = "stream" => outcome[c] = "direct"
  /\ program # "main" /\ pc[c] = "send" => reg[c] > 0
  /\ mine[c] \in Entry /\ entry[mine[c]].cacheable =>
       /\ offset[c] <= entry[mine[c]].size
       /\ pc[c] = "send" => offset[c] + reg[c] <= entry[mine[c]].size
  /\ (pc[c] \in {"leave", "drop"} /\ outcome[c] = "none") \/ outcome[c] = "cached" =>
       /\ mine[c] \in Entry /\ entry[mine[c]].complete
       /\ entry[mine[c]].cacheable => offset[c] = entry[mine[c]].size

(* In main2.c a client waits until the fetcher is done, then sends all of it *)
(* at once or goes to the server: it never has a part.                       *)
Main2Client(c) ==
  /\ mine[c] \notin Entry => offset[c] = 0 /\ outcome[c] = "none"
  /\ mine[c] \in Entry =>
       /\ fetcher[mine[c]] # "exit" => pc[c] \in Early /\ (pc[c] = "hit" => reg[c] >= 1)
       /\ pc[c] \in Early \cup {"send", "stream"} => offset[c] = 0
       /\ pc[c] = "send" => entry[mine[c]].cacheable /\ reg[c] = entry[mine[c]].size
       /\ pc[c] = "sent" =>
            entry[mine[c]].cacheable /\ offset[c] = entry[mine[c]].size /\ offset[c] > 0
       /\ pc[c] \in {"leave", "drop"} /\ outcome[c] = "none" => entry[mine[c]].cacheable
       /\ outcome[c] \in {"direct", "broken"} => offset[c] = 0
       /\ outcome[c] = "direct" => ~entry[mine[c]].cacheable

(* So whoever made the entry is still counted while the fetcher is at work:  *)
(* references may be lost by the race of two of them, but never the last.    *)
Main2Entry(e) ==
  /\ fetcher[e] \notin {"none", "exit"} => entry[e].refcount >= 1
  /\ e \in freed => fetcher[e] = "exit"

(* A client that has its entry to itself counted it, and is the only one.    *)
Alone(c) == \A d \in Clients \ {c} : mine[d] # mine[c]

AloneOK(c) ==
  Alone(c) /\ pc[c] \in Serving =>
    /\ pc[c] # "hit"
    /\ entry[mine[c]].refcount = 1 /\ mine[c] \notin freed
    /\ pc[c] = "drop" => reg[c] = 1

(* Some client made the entry and still has it on record.                    *)
MadeBy(e) == \E c \in Clients : mine[c] = e /\ pc[c] # "hit"

(* The clients that may have made an entry: there are no more entries.       *)
Made == {c \in Clients : pc[c] \notin {"request", "miss", "insert"}}
-----------------------------------------------------------------------------
(* The parts of the invariant: of the table, of the entries, of the clients, *)
(* of what they were sent, of main2.c, of the references and of the blocks.  *)
TableOK == \A i, j \in 1 .. Len(cache_table) : cache_table[i] = cache_table[j] => i = j
EntriesOK == \A e \in Entry : EntryOK(e)
MainOK == program = "main" => \A e \in Entry : MainEntry(e)
HeaderOK == program # "main" => \A e \in Entry : HeaderEntry(e)
ClientsOK == \A c \in Clients : ClientOK(c)

StateOK ==
  /\ TypesOK /\ UsedWithinLimit /\ UsedIsAccounted /\ TableOK
  /\ EntriesOK /\ MainOK /\ HeaderOK /\ ClientsOK

ServedAll == \A c \in Clients : ServedOK(c)

Main2OK ==
  program = "main2" =>
    (\A c \in Clients : Main2Client(c)) /\ \A e \in Entry : Main2Entry(e)

AloneAll == (\A c \in Clients : AloneOK(c)) /\ \A e \in Entry : Used(e) => MadeBy(e)

EnoughEntries == Cardinality({e \in Entry : Used(e)}) <= Cardinality(Made)

Inv == StateOK /\ ServedAll /\ Main2OK /\ AloneAll /\ EnoughEntries
=============================================================================
