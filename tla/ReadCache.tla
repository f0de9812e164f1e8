------------------------------ MODULE ReadCache ------------------------------
(***************************************************************************)
(* What the service worker (web/public/sw.js) does with the reads of the     *)
(* page: a cached answer is handed out when the network takes longer than    *)
(* NET_WAIT_MS, the answer that comes later replaces it in the cache, and a  *)
(* message asks the page to read once more; the cache keeps MAX_API_ENTRIES  *)
(* answers.  An answer is the version of the server's data it was made from. *)
(*                                                                           *)
(* The urls are the lists a page may show: they differ in the query and have *)
(* one path, /api/tasks, and so share the message's five seconds.            *)
(***************************************************************************)
EXTENDS Naturals, Sequences, SequencesExt

CONSTANTS
  Urls,
  MaxEntries,   \* MAX_API_ENTRIES
  Weather,      \* of {"burst", "offline"}: what the network may do
  MaxVersion,   \* bound: versions of the data
  MaxFetches    \* bound: requests of the page

VARIABLES
  version,      \* the server's data
  keys,         \* the urls in the cache, the one written first at the head
  cached,       \* the version cached for a url, None without an entry
  fetches,      \* requests the worker has not done with
  place, shown, \* the page: the list it shows, and of which version
  lost,         \* the network failed the newest request of the page
  messages,     \* SW_REVALIDATED on their way
  recon,        \* the page's debounced reconcile is armed
  hush,         \* notifiedAt: a message was sent less than five seconds ago
  due,          \* history: what the network answered the newest request with
  nFetches

cacheVars == <<version, keys, cached, fetches, place, shown, lost, messages, recon, hush, due, nFetches>>

None == 0

\* One request: what the page is given (side page) and what the network does.
Fetch == [url : Urls, no : 1 .. MaxFetches, had : 0 .. MaxVersion,
          page : {"waits", "given", "done"}, reply : 0 .. MaxVersion, handed : BOOLEAN,
          net : {"out", "back", "done"}, answer : 0 .. MaxVersion]

Newest(f) == f.no = nFetches

\* A request both sides have done with is forgotten.
Becomes(f, g) == fetches' = (fetches \ {f}) \cup {h \in {g} : h.page # "done" \/ h.net # "done"}

Init ==
  /\ version = 1
  /\ keys \in {<<>>} \cup {<<u>> : u \in Urls}
  /\ cached = [u \in Urls |-> IF u \in ToSet(keys) THEN 1 ELSE None]
  /\ due = None
  /\ fetches = {} /\ place \in Urls /\ shown = None /\ lost = FALSE
  /\ messages = 0 /\ recon = FALSE /\ hush = FALSE /\ nFetches = 0

-----------------------------------------------------------------------------
(* The page.                                                                *)

\* staleWhileRevalidate notes what the cache has and asks the network.
Ask(u) ==
  /\ nFetches < MaxFetches /\ nFetches' = nFetches + 1
  /\ due' = None /\ lost' = FALSE
  /\ fetches' = fetches \cup
       {[url |-> u, no |-> nFetches + 1, had |-> cached[u], page |-> "waits", reply |-> None,
         handed |-> FALSE, net |-> "out", answer |-> None]}

Go(u) ==
  /\ Ask(u)
  /\ place' = u /\ shown' = IF u = place THEN shown ELSE None
  /\ UNCHANGED <<version, keys, cached, messages, recon, hush>>

\* The answer reaches refreshTasks, which drops it when it has asked again.
PageLands(f) ==
  /\ f.page = "given"
  /\ Becomes(f, [f EXCEPT !.page = "done"])
  /\ IF Newest(f)
     THEN shown' = IF f.reply = None THEN shown ELSE f.reply
     ELSE UNCHANGED shown
  /\ UNCHANGED <<version, keys, cached, place, lost, messages, recon, hush, due, nFetches>>

\* useSwRevalidated: the page reconciles, after 220 ms without another one.
MessageArrives ==
  /\ messages > 0 /\ messages' = messages - 1
  /\ recon' = TRUE
  /\ UNCHANGED <<version, keys, cached, fetches, place, shown, lost, hush, due, nFetches>>

ReconcileFires ==
  /\ recon /\ recon' = FALSE
  /\ Ask(place)
  /\ UNCHANGED <<version, keys, cached, place, shown, messages, hush>>

-----------------------------------------------------------------------------
(* The network and the worker.                                              *)

ServerChanges ==
  /\ version < MaxVersion /\ version' = version + 1
  /\ UNCHANGED <<keys, cached, fetches, place, shown, lost, messages, recon, hush, due, nFetches>>

ServerAnswers(f) ==
  /\ f.net = "out"
  /\ Becomes(f, [f EXCEPT !.net = "back", !.answer = version])
  /\ UNCHANGED <<version, keys, cached, place, shown, lost, messages, recon, hush, due, nFetches>>

\* NET_WAIT_MS are over: the page is given what the cache had.
Deadline(f) ==
  /\ f.page = "waits" /\ f.had # None
  /\ Becomes(f, [f EXCEPT !.page = "given", !.reply = f.had, !.handed = TRUE])
  /\ UNCHANGED <<version, keys, cached, place, shown, lost, messages, recon, hush, due, nFetches>>

\* Mutant: the cache is not trimmed.
Put_All(u, v) ==
  /\ keys' = Append(Remove(keys, u), u)
  /\ cached' = [cached EXCEPT ![u] = v]

\* cache.put moves the key to the end; trimCache drops those at the head.
Put(u, v) ==
  LET all  == Append(Remove(keys, u), u)
      over == IF Len(all) > MaxEntries THEN Len(all) - MaxEntries ELSE 0
  IN  /\ keys' = SubSeq(all, over + 1, Len(all))
      /\ cached' = [w \in Urls |-> IF w = u THEN v ELSE IF w \in ToSet(keys') THEN cached[w] ELSE None]

\* Mutant: the page is not told.
Notify_Not == UNCHANGED <<messages, hush>>

\* notifyRevalidated: at most one message in five seconds for a path.
Notify ==
  IF hush THEN UNCHANGED <<messages, hush>>
          ELSE messages' = messages + 1 /\ hush' = TRUE

\* An answer reaches the worker.  In time it is the page's, and when the page
\* has been given the cached one it is told; without "burst" such late answers
\* are five seconds apart.
AnswerArrives(f) ==
  /\ f.net = "back"
  /\ f.handed /\ "burst" \notin Weather => ~hush
  /\ Put(f.url, f.answer)
  /\ due' = IF Newest(f) THEN f.answer ELSE due
  /\ IF f.handed
     THEN Notify /\ Becomes(f, [f EXCEPT !.net = "done"])
     ELSE /\ Becomes(f, [f EXCEPT !.net = "done", !.page = "given", !.reply = f.answer])
          /\ UNCHANGED <<messages, hush>>
  /\ UNCHANGED <<version, place, shown, lost, recon, nFetches>>

\* No network: what the cache had, or, had it nothing, what it has by now.
NetFails(f) ==
  /\ "offline" \in Weather
  /\ f.net = "out"
  /\ LET fallback == IF f.had # None THEN f.had ELSE cached[f.url]
     IN  Becomes(f, IF f.page = "waits"
                    THEN [f EXCEPT !.net = "done", !.page = "given", !.reply = fallback]
                    ELSE [f EXCEPT !.net = "done"])
  /\ lost' = (lost \/ Newest(f))
  /\ UNCHANGED <<version, keys, cached, place, shown, messages, recon, hush, due, nFetches>>

\* The page cancels a request it has replaced, when the browser still can.
Cancelled(f) ==
  /\ ~Newest(f) /\ f.net # "done"
  /\ fetches' = fetches \ {f}
  /\ UNCHANGED <<version, keys, cached, place, shown, lost, messages, recon, hush, due, nFetches>>

FiveSecondsLater ==
  /\ hush /\ hush' = FALSE
  /\ UNCHANGED <<version, keys, cached, fetches, place, shown, lost, messages, recon, due, nFetches>>

CacheNext ==
  \/ \E u \in Urls : Go(u)
  \/ \E f \in fetches :
       \/ PageLands(f) \/ ServerAnswers(f) \/ Deadline(f) \/ AnswerArrives(f)
       \/ NetFails(f) \/ Cancelled(f)
  \/ MessageArrives \/ ReconcileFires \/ ServerChanges \/ FiveSecondsLater

CacheSpec == Init /\ [][CacheNext]_cacheVars

-----------------------------------------------------------------------------
CacheTypeOK ==
  /\ keys \in Seq(Urls) /\ Len(keys) <= MaxEntries
  /\ cached \in [Urls -> 0 .. MaxVersion] /\ due \in 0 .. MaxVersion
  /\ fetches \subseteq Fetch
  /\ place \in Urls /\ shown \in 0 .. MaxVersion
  /\ {lost, recon, hush} \subseteq BOOLEAN

\* The keys are exactly the urls with an entry, each once.
KeysTrue == IsInjective(keys) /\ \A u \in Urls : cached[u] # None <=> u \in ToSet(keys)

\* Once nothing is under way the page shows nothing older than what the network
\* answered its newest request with: an answer too late for the request reaches
\* the page all the same, whatever older requests do to the cache.
CatchesUp ==
  fetches = {} /\ messages = 0 /\ ~recon => shown >= due
=============================================================================
