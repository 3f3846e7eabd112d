------------------------------ MODULE PageStream ------------------------------
(***************************************************************************)
(* How a client hands out the pages of a thread: get_pages and iter_pages  *)
(* of nga_tools/ngaclient/client.py.  A stream asks the API runtime for    *)
(* the pages it lacks, which fetches some of them ahead, and yields them   *)
(* in order.  What a stream that ends early has fetched and not yielded is *)
(* kept for the next one; get_pages keeps all it fetches.                  *)
(*                                                                         *)
(* A client is used by one thread.  The runtime fetches pages in any       *)
(* order, hands them over in order, and its close returns when no fetch    *)
(* runs any more (FairAPIRuntime).                                         *)
(***************************************************************************)
EXTENDS Integers, Sequences, FiniteSets, Functions

CONSTANTS LastPage,
          MaxCalls,  \* bound: calls
          Ahead      \* the window of the API runtime

ASSUME PageAssumption == LastPage \in Nat /\ MaxCalls \in Nat /\ Ahead \in Nat

Pages == 1..LastPage

VARIABLES
  pageCache, prefetch,  \* page_cache and _stream_prefetch_cache: sets of pages
  call,                 \* the running call
  unused,               \* history: the pages streams have fetched and not yielded
  calls

pageVars == <<pageCache, prefetch, call, unused, calls>>

NoCall == [kind |-> "none", want |-> <<>>, cached |-> {}, asked |-> FALSE, failed |-> FALSE,
           running |-> {}, arrived |-> {}, completed |-> {}]

PageInit ==
  /\ pageCache = {} /\ prefetch = {} /\ unused = {}
  /\ call = NoCall /\ calls = 0

\* The pages still to be handed out that are fetched for this call.
Missing == Range(call.want) \ call.cached

-----------------------------------------------------------------------------

\* get_pages has no use for what streams have left.
Known(kind) == IF kind = "stream" THEN pageCache \union prefetch ELSE pageCache

Call(kind, from, to) ==
  /\ call.kind = "none" /\ calls < MaxCalls
  /\ call' = [NoCall EXCEPT !.kind = kind, !.asked = kind = "get",
                !.want = [i \in 1..(to - from + 1) |-> from + i - 1],
                !.cached = (from..to) \intersect Known(kind)]
  /\ calls' = calls + 1
  /\ UNCHANGED <<pageCache, prefetch, unused>>

\* The consumer needs a page that is fetched: only then the batch is submitted.
AskRuntime ==
  /\ call.kind = "stream" /\ ~call.asked
  /\ call.want # <<>> /\ Head(call.want) \notin call.cached
  /\ call' = [call EXCEPT !.asked = TRUE]
  /\ UNCHANGED <<pageCache, prefetch, unused, calls>>

\* The runtime has at most a window of pages running or not yet handed over: those
\* of a stream wait for their turn, those of get_pages do not.
Before(p) == {k \in Missing : k < p}
InWindow ==
  {p \in Missing : Cardinality(IF call.kind = "stream" THEN Before(p) ELSE call.running) < Ahead}

Fetch(p) ==
  /\ call.asked /\ ~call.failed
  /\ p \in InWindow
  /\ p \notin call.running \union call.arrived
  /\ call' = [call EXCEPT !.running = @ \union {p}]
  /\ UNCHANGED <<pageCache, prefetch, unused, calls>>

\* fetch_runtime_page notes the page, and the runtime has it; or the fetch fails.
Arrives(p) ==
  /\ p \in call.running
  /\ \/ /\ call' = [call EXCEPT !.running = @ \ {p}, !.arrived = @ \union {p},
                                !.completed = @ \union {p}]
        /\ unused' = IF call.kind = "stream" THEN unused \union {p} ELSE unused
     \/ /\ call' = [call EXCEPT !.running = @ \ {p}, !.failed = TRUE]
        /\ UNCHANGED unused
  /\ UNCHANGED <<pageCache, prefetch, calls>>

\* The consumer gets the next page.
Yield ==
  LET p == Head(call.want) IN
  /\ call.kind = "stream" /\ call.want # <<>>
  /\ \/ p \in call.cached /\ prefetch' = prefetch \ {p}
     \/ p \in call.arrived /\ UNCHANGED prefetch
  /\ call' = [call EXCEPT !.want = Tail(@), !.arrived = @ \ {p}, !.completed = @ \ {p}]
  /\ unused' = unused \ {p}
  /\ UNCHANGED <<pageCache, calls>>

\* Mutant: only what the runtime fetched for the page the consumer waited for.
NextLeft == {p \in call.completed : call.want # <<>> /\ p = Head(call.want)}
Left == call.completed

\* The stream is at its end, the consumer has left it, or a fetch has failed; the
\* fetches that run end first.
EndStream ==
  /\ call.kind = "stream" /\ call.running = {}
  /\ prefetch' = prefetch \union Left
  /\ call' = NoCall
  /\ UNCHANGED <<pageCache, unused, calls>>

\* get_pages returns when it has all its pages, or raises and keeps none.
EndGet ==
  /\ call.kind = "get" /\ call.running = {}
  /\ \/ call.failed /\ UNCHANGED pageCache
     \/ /\ Missing \subseteq call.arrived
        /\ pageCache' = pageCache \union Range(call.want)
  /\ call' = NoCall
  /\ UNCHANGED <<prefetch, unused, calls>>

\* clear_page_cache
ClearCache ==
  /\ call.kind = "none"
  /\ pageCache' = {} /\ prefetch' = {} /\ unused' = {}
  /\ UNCHANGED <<call, calls>>

PageNext ==
  \/ \E kind \in {"stream", "get"}, from, to \in Pages : from <= to /\ Call(kind, from, to)
  \/ \E p \in Pages : Fetch(p) \/ Arrives(p)
  \/ AskRuntime \/ Yield \/ EndStream \/ EndGet \/ ClearCache

PageSpec == PageInit /\ [][PageNext]_pageVars

-----------------------------------------------------------------------------

\* What streams have fetched and not handed out is kept, and nothing else is: no
\* stream fetches it again, and a page that has been handed out is forgotten,
\* wherever streams end, fetches fail, and get_pages comes in between.
\* (NGAClient.iter_pages, client.py.)
PrefetchIsExact ==
  /\ call.kind # "stream" => prefetch = unused
  /\ call.kind = "stream" => call.running \intersect unused = {}
=============================================================================
