------------------------------ MODULE MCProxies ------------------------------
(***************************************************************************)
(* The three caching proxies side by side: program says which of them the  *)
(* behaviour belongs to.                                                   *)
(***************************************************************************)
EXTENDS ProxyCache

CONSTANTS Length, FirstCapacity, Pending, Refused

ASSUME StreamAssumption == Length \in Nat /\ FirstCapacity \in Nat \ {0}

VARIABLES program, total_size

Main == INSTANCE StreamProxy
Main1 == INSTANCE HeaderProxy WITH Program <- "main1"
Main2 == INSTANCE HeaderProxy WITH Program <- "main2"

vars == <<cacheVars, program, total_size>>

(* Clients and urls are interchangeable: the first request is always the     *)
(* same client's for the same url.                                           *)
First == CHOOSE c \in Clients : TRUE

Init ==
  /\ program \in {"main", "main1", "main2"} /\ Main1!Init
  /\ url[First] = CHOOSE u \in Urls : TRUE

Client(c) ==
  /\ pc[First] = "request" => c = First
  /\ UNCHANGED program
  /\ \/ program = "main" /\ Main!Client(c) /\ UNCHANGED total_size
     \/ program = "main1" /\ Main1!Client(c)
     \/ program = "main2" /\ Main2!Client(c)

Fetcher(e) ==
  /\ UNCHANGED program
  /\ \/ program = "main" /\ Main!Fetcher(e) /\ UNCHANGED total_size
     \/ program = "main1" /\ Main1!Fetcher(e)
     \/ program = "main2" /\ Main2!Fetcher(e)

Next == (\E c \in Clients : Client(c)) \/ (\E e \in Entry : Fetcher(e))

Spec == Init /\ [][Next]_vars

(* Threads run; servers send on or close, so recv and send return.           *)
FairSpec ==
  Spec /\ (\A c \in Clients : WF_vars(Client(c))) /\ (\A e \in Entry : WF_vars(Fetcher(e)))
-----------------------------------------------------------------------------
(* In main2.c, where a client waits for the whole answer, the fetcher never  *)
(* touches an entry that has been evicted.  (In the other two a client that  *)
(* is gone leaves early, and the entry may go before its fetcher is done.)   *)
FetcherKeepsEntry == program = "main2" => \A e \in freed : fetcher[e] = "exit"

(* An entry of main2.c keeps the promise of SharedAnswer.  A client whose    *)
(* send fails gets no answer.                                                *)
Promise == INSTANCE SharedAnswer WITH
  Users <- Clients, Cells <- Entry, Lengths <- 0 .. CACHE_MAX_BYTES,
  result <- [e \in Entry |-> IF ~entry[e].complete THEN Pending
                             ELSE IF entry[e].cacheable THEN entry[e].size ELSE Refused],
  cell <- mine,
  answer <- [c \in Clients |-> CASE outcome[c] = "direct" -> Refused
                                 [] outcome[c] = "cached" \/ offset[c] > 0 -> offset[c]
                                 [] OTHER -> None]

AnswersAreShared ==
  (program = "main2" => Promise!Init) /\ [][program = "main2" => [Promise!Next]_(Promise!vars)]_vars

(* Every request ends: no client waits for a broadcast that never comes.     *)
EveryRequestEnds == <>(\A c \in Clients : pc[c] = "closed")
=============================================================================
