----------------------------- MODULE EventIndex -----------------------------
(***************************************************************************)
(* The background crawler and the live listeners of                        *)
(* src/indexing/EventIndex.ts, which fill the search index of encrypted    *)
(* rooms, with the platform's index behind BaseEventIndexManager, the      *)
(* /sync loop that feeds the listeners, and reloads of the application.    *)
(*                                                                         *)
(* A room's timeline is a sequence of items: 0 is a message, k > 0 is the  *)
(* redaction of the message at position k.  A pagination token t stands    *)
(* between the positions t and t + 1.  Tokens of different responses       *)
(* differ: `from' and `page' of a checkpoint say which /sync its crawl     *)
(* began with, and in which life of the page.  The code between two awaits *)
(* is one step.                                                            *)
(***************************************************************************)
EXTENDS Integers, FiniteSets, SequencesExt

CONSTANTS
    Room,
    None,
    Scenarios        \* bounds and assumptions, one of which a behaviour is under

Scenario ==
    [len : Nat,               \* bound: events per room
     initLen : Nat,           \* bound: events of a room before the index is enabled
     batch : Nat \ {0},       \* EVENTS_PER_CRAWL
     faults : Nat,            \* bound: failing calls of the index or the server
     reloads : Nat,           \* bound: reloads and crashes of the application
     redactions : BOOLEAN,    \* may messages be redacted?
     lateEncryption : BOOLEAN,\* may rooms become encrypted later?
     forbidden : BOOLEAN,     \* may the server answer 403?
     wholeTimeline : BOOLEAN, \* may a live timeline reach the start of its room?
     inOrder : BOOLEAN,       \* is a commit done after the handlers of the events before it?
     canClose : BOOLEAN,      \* may the user turn the index off?
     endInSetup : BOOLEAN,    \* may the page or the index go while rooms are being seeded?
     calmStart : BOOLEAN,     \* do events come only when the index has said whether it is empty?
     fair : BOOLEAN]          \* do requests, handlers and syncs go on?

ASSUME EventIndexAssumption ==
    /\ Scenarios \subseteq Scenario
    /\ \A s \in Scenarios : s.initLen <= s.len
    /\ None \notin [room : Room, from : Nat, page : Nat, token : Nat, full : BOOLEAN, dir : {"b", "f"}]

VARIABLES
    timeline,        \* the room's events on the server
    encrypted,       \* the rooms that are encrypted
    token,           \* start of the live timeline: its backward pagination token
    seen,            \* how far the client has synced
    saved,           \* how far it need not sync again after a reload
    indexed,         \* committed events of the index
    live,            \* addEventToIndex was called, commitLiveEvents not yet
    stored,          \* crawler checkpoints in the index
    phase,           \* of this EventIndex object
    setup,           \* the handler of the first sync
    seeds,           \* checkpoints addInitialCheckpoints has still to add
    decrypting,      \* live events that onRoomTimeline waits for
    checking,        \* rooms of which onRoomStateEvent asks whether they are indexed
    adding,          \* checkpoints that addRoomCheckpoint is storing
    crawlerCheckpoints,
    currentCheckpoint,
    crawler,         \* where crawlerFunc is, "off" when this.crawler is null
    cancelled,
    batch,           \* what crawlerFunc fetched last
    overtaken,       \* history: messages redacted between the crawler's filter and its add
    faults, reloads,
    scenario         \* never changes

serverVars == <<timeline, encrypted>>
clientVars == <<token, seen, saved>>
indexVars == <<indexed, live, stored>>
handlerVars == <<setup, seeds, decrypting, checking, adding>>
crawlerVars == <<crawlerCheckpoints, currentCheckpoint, crawler, cancelled, batch>>
bounds == <<faults, reloads, scenario>>
vars == <<serverVars, clientVars, indexVars, phase, handlerVars, crawlerVars, overtaken, bounds>>

Event == Room \X (1 .. scenario.len)
Checkpoint == [room : Room, from : 0 .. scenario.len, page : 0 .. scenario.reloads, token : 0 .. scenario.len,
               full : BOOLEAN, dir : {"b", "f"}]
Fetched == [events : SUBSET Event, gone : SUBSET Event, next : Checkpoint \cup {None}]
NoBatch == [events |-> {}, gone |-> {}, next |-> None]

TypeOK ==
    /\ timeline \in [Room -> Seq(0 .. scenario.len)] /\ \A r \in Room : Len(timeline[r]) <= scenario.len
    /\ encrypted \subseteq Room
    /\ token \in [Room -> 0 .. scenario.len] /\ seen \in [Room -> 0 .. scenario.len]
    /\ saved \in [Room -> 0 .. scenario.len]
    /\ indexed \subseteq Event /\ live \subseteq Event /\ stored \subseteq Checkpoint
    /\ phase \in {"down", "loaded", "syncing", "closed"}
    /\ setup \in {"idle", "asking", "seeding", "starting", "done"}
    /\ seeds \subseteq Checkpoint /\ adding \subseteq Checkpoint
    /\ decrypting \subseteq Event /\ checking \subseteq Room /\ overtaken \subseteq Event
    /\ crawlerCheckpoints \in Seq(Checkpoint)
    /\ currentCheckpoint \in Checkpoint \cup {None}
    /\ crawler \in {"off", "sleep", "fetch", "decrypt", "delete", "remove", "trim"}
    /\ cancelled \in BOOLEAN
    /\ batch \in Fetched
    /\ faults \in 0 .. scenario.faults /\ reloads \in 0 .. scenario.reloads
    /\ scenario \in Scenarios

(* A live timeline of n events, by its backward token; 0 stands for none. *)
LiveTokens(n) == IF scenario.wholeTimeline THEN 0 .. n ELSE 1 .. n

Init ==
    /\ scenario \in Scenarios
    /\ timeline \in [Room -> {s \in BoundedSeq({0}, scenario.initLen) : s # <<>>}]
    /\ encrypted = IF scenario.lateEncryption THEN {} ELSE Room
    /\ seen = [r \in Room |-> Len(timeline[r])] /\ saved = seen
    /\ token \in [Room -> 0 .. scenario.len] /\ \A r \in Room : token[r] \in LiveTokens(seen[r])
    /\ indexed = {} /\ live = {} /\ stored = {}
    /\ phase = "down" /\ setup = "idle" /\ seeds = {}
    /\ decrypting = {} /\ checking = {} /\ adding = {} /\ overtaken = {}
    /\ crawlerCheckpoints = <<>> /\ currentCheckpoint = None
    /\ crawler = "off" /\ cancelled = FALSE /\ batch = NoBatch
    /\ faults = 0 /\ reloads = 0

----------------------------------------------------------------------------
(* The checkpoint of a crawl that begins at token t. *)
NewCheckpoint(r, t, full, dir) ==
    [room |-> r, from |-> t, page |-> reloads, token |-> t,
     full |-> full, dir |-> dir]

(* The listeners are on, from init to close. *)
Listening ==
    /\ phase \in {"loaded", "syncing"}
    /\ scenario.calmStart => setup \notin {"idle", "asking"}

(* A call of the index or the server fails; a closed index always does. *)
Fault ==
    \/ faults < scenario.faults /\ faults' = faults + 1
    \/ phase = "closed" /\ UNCHANGED faults

IsMessage(e) == timeline[e[1]][e[2]] = 0
Redacted(e, n) == \E q \in 1 .. n : timeline[e[1]][q] = e[2]

(* The events of r that the client has loaded in its live timeline. *)
Loaded(e) == token[e[1]] < e[2] /\ e[2] <= seen[e[1]]

(* isValidEvent, with what the client knows of redactions. *)
KnownRedacted(e) == Loaded(e) /\ Redacted(e, seen[e[1]])

----------------------------------------------------------------------------
(* THE SERVER AND THE SYNC LOOP *)

(* Somebody sends a message, or redacts one. *)
ServerEvent(r) ==
    /\ Len(timeline[r]) < scenario.len
    /\ \E x \in 0 .. Len(timeline[r]) :
        /\ x > 0 => /\ scenario.redactions /\ IsMessage(<<r, x>>)
                    /\ ~Redacted(<<r, x>>, Len(timeline[r]))
        /\ timeline' = [timeline EXCEPT ![r] = Append(@, x)]
    /\ UNCHANGED <<encrypted, clientVars, indexVars, phase, handlerVars, crawlerVars,
                   overtaken, bounds>>

(* onRoomTimeline for the next live event: a message waits for its         *)
(* decryption, a redaction goes to redactEvent.                            *)
OnRoomTimeline(r) ==
    /\ Listening /\ seen[r] < Len(timeline[r])
    /\ seen' = [seen EXCEPT ![r] = @ + 1]
    /\ LET p == seen[r] + 1
           target == <<r, timeline[r][p]>>
       IN  \/ r \notin encrypted /\ UNCHANGED <<indexed, live, decrypting, overtaken, faults>>
           \/ /\ r \in encrypted /\ IsMessage(<<r, p>>)
              /\ decrypting' = decrypting \cup {<<r, p>>}
              /\ UNCHANGED <<indexed, live, overtaken, faults>>
           \/ /\ r \in encrypted /\ ~IsMessage(<<r, p>>)
              /\ \/ /\ indexed' = indexed \ {target} /\ live' = live \ {target}
                    /\ overtaken' = IF crawler = "delete" THEN overtaken \cup ({target} \cap batch.events)
                                                          ELSE overtaken
                    /\ UNCHANGED faults
                 \/ Fault /\ UNCHANGED <<indexed, live, overtaken>>
              /\ UNCHANGED decrypting
    /\ UNCHANGED <<serverVars, token, saved, stored, phase, setup, seeds, checking, adding,
                   crawlerVars, reloads, scenario>>

(* Mutant: a decrypted event is not looked at again. *)
AddLiveEventBlind(e) ==
    /\ e \in decrypting /\ phase # "closed"
    /\ decrypting' = decrypting \ {e} /\ live' = live \cup {e}
    /\ UNCHANGED <<serverVars, clientVars, indexed, stored, phase, setup, seeds, checking,
                   adding, crawlerVars, overtaken, bounds>>

(* The rest of onRoomTimeline, addLiveEventToIndex.  An event that cannot  *)
(* be decrypted, or that the index does not take, is not tried again.      *)
AddLiveEvent(e) ==
    /\ e \in decrypting
    /\ decrypting' = decrypting \ {e}
    /\ \/ /\ phase # "closed" \/ KnownRedacted(e)
          /\ live' = IF KnownRedacted(e) THEN live ELSE live \cup {e}
          /\ UNCHANGED faults
       \/ ~KnownRedacted(e) /\ Fault /\ UNCHANGED live
    /\ UNCHANGED <<serverVars, clientVars, indexed, stored, phase, setup, seeds, checking,
                   adding, crawlerVars, overtaken, reloads, scenario>>

(* Mutant: the token of the old live timeline is taken. *)
OnTimelineResetOldToken(r) ==
    /\ Listening
    /\ \E t \in (seen[r] + 1) .. (Len(timeline[r]) - 1) :
        /\ seen' = [seen EXCEPT ![r] = t]
        /\ token' = [token EXCEPT ![r] = t]
    /\ adding' = IF r \in encrypted
                 THEN adding \cup {NewCheckpoint(r, token[r], FALSE, "b")}
                 ELSE adding
    /\ UNCHANGED <<serverVars, saved, indexVars, phase, setup, seeds, decrypting, checking,
                   crawlerVars, overtaken, bounds>>

(* A limited sync: the timeline is reset behind a gap, onTimelineReset asks *)
(* for a checkpoint.                                                        *)
OnTimelineReset(r) ==
    /\ Listening
    /\ \E t \in (seen[r] + 1) .. (Len(timeline[r]) - 1) :
        /\ seen' = [seen EXCEPT ![r] = t]
        /\ token' = [token EXCEPT ![r] = t]
        /\ adding' = IF r \in encrypted
                     THEN adding \cup {NewCheckpoint(r, t, FALSE, "b")}
                     ELSE adding
    /\ UNCHANGED <<serverVars, saved, indexVars, phase, setup, seeds, decrypting, checking,
                   crawlerVars, overtaken, bounds>>

(* onRoomStateEvent: the room becomes encrypted.  Is it indexed already? *)
OnRoomStateEvent(r) ==
    /\ scenario.lateEncryption /\ Listening /\ r \notin encrypted
    /\ encrypted' = encrypted \cup {r} /\ checking' = checking \cup {r}
    /\ UNCHANGED <<timeline, clientVars, indexVars, phase, setup, seeds, decrypting, adding,
                   crawlerVars, overtaken, bounds>>

(* It is not: addRoomCheckpoint.  A room that has no token has its whole   *)
(* live timeline indexed (addEventsFromLiveTimeline).                       *)
IsRoomIndexed(r) ==
    /\ r \in checking /\ checking' = checking \ {r}
    /\ \/ (\E e \in indexed : e[1] = r) /\ UNCHANGED <<adding, live, faults>>
       \/ /\ (\A e \in indexed : e[1] # r) /\ token[r] > 0
          /\ adding' = adding \cup {NewCheckpoint(r, token[r], TRUE, "b")}
          /\ UNCHANGED <<live, faults>>
       \/ /\ (\A e \in indexed : e[1] # r) /\ token[r] = 0 /\ phase # "closed"
          /\ live' = live \cup {e \in Event : /\ e[1] = r /\ e[2] <= seen[r]
                                              /\ IsMessage(e) /\ ~KnownRedacted(e)}
          /\ UNCHANGED <<adding, faults>>
       \/ Fault /\ UNCHANGED <<adding, live>>
    /\ UNCHANGED <<serverVars, clientVars, indexed, stored, phase, setup, seeds, decrypting,
                   crawlerVars, overtaken, reloads, scenario>>

(* onSync, every other sync: commitLiveEvents. *)
CommitLiveEvents ==
    /\ phase = "syncing" /\ live # {}
    /\ scenario.inOrder => adding = {} /\ decrypting = {} /\ checking = {}
    /\ indexed' = indexed \cup live /\ live' = {}
    /\ UNCHANGED <<serverVars, clientVars, stored, phase, handlerVars, crawlerVars, overtaken,
                   bounds>>

(* The js-sdk saves its sync position.  It is taken to do so only when the *)
(* listeners are done with the events before it.                           *)
SaveSync ==
    /\ decrypting = {} /\ checking = {} /\ live = {} /\ adding = {} /\ phase = "syncing"
    /\ saved # seen /\ saved' = seen
    /\ UNCHANGED <<serverVars, token, seen, indexVars, phase, handlerVars, crawlerVars,
                   overtaken, bounds>>

----------------------------------------------------------------------------
(* CHECKPOINTS *)

(* Mutant: the checkpoint is stored, the running crawler not told. *)
AddRoomCheckpointQuiet(c) ==
    /\ c \in adding
    /\ adding' = adding \ {c} /\ stored' = stored \cup {c}
    /\ UNCHANGED <<serverVars, clientVars, indexed, live, phase, setup, seeds, decrypting,
                   checking, crawlerVars, overtaken, bounds>>

(* addRoomCheckpoint: a checkpoint that could not be stored is crawled     *)
(* all the same.                                                           *)
AddRoomCheckpoint(c) ==
    /\ c \in adding
    /\ adding' = adding \ {c}
    /\ crawlerCheckpoints' = Append(crawlerCheckpoints, c)
    /\ \/ phase # "closed" /\ stored' = stored \cup {c} /\ UNCHANGED faults
       \/ Fault /\ UNCHANGED stored
    /\ UNCHANGED <<serverVars, clientVars, indexed, live, phase, setup, seeds, decrypting,
                   checking, currentCheckpoint, crawler, cancelled, batch, overtaken, reloads, scenario>>

(* One backward and one forward crawl from the start of the live timeline. *)
InitialCheckpoints ==
    UNION {{NewCheckpoint(r, token[r], TRUE, "b"), NewCheckpoint(r, token[r], FALSE, "f")} :
              r \in {q \in encrypted : token[q] > 0}}

(* init: the stored checkpoints are loaded, the listeners registered. *)
LoadCheckpoints ==
    /\ phase = "down"
    /\ phase' = "loaded"
    /\ crawlerCheckpoints' \in SetToSeqs(stored)
    /\ UNCHANGED <<serverVars, clientVars, indexVars, handlerVars, currentCheckpoint, crawler,
                   cancelled, batch, overtaken, bounds>>

(* onSync, first sync: is the index empty? *)
FirstSync ==
    /\ phase = "loaded"
    /\ phase' = "syncing" /\ setup' = "asking"
    /\ UNCHANGED <<serverVars, clientVars, indexVars, seeds, decrypting, checking, adding,
                   crawlerVars, overtaken, bounds>>

(* If it cannot tell, there is no crawler until the application is started *)
(* again.                                                                  *)
IsEventIndexEmpty ==
    /\ setup = "asking"
    /\ \/ /\ indexed = {} /\ stored = {}
          /\ setup' = "seeding"
          /\ seeds' = InitialCheckpoints
          /\ UNCHANGED faults
       \/ /\ ~(indexed = {} /\ stored = {})
          /\ setup' = "starting"
          /\ UNCHANGED <<seeds, faults>>
       \/ Fault /\ setup' = "done" /\ UNCHANGED seeds
    /\ UNCHANGED <<serverVars, clientVars, indexVars, phase, decrypting, checking, adding,
                   crawlerVars, overtaken, reloads, scenario>>

(* addInitialCheckpoints: per room, first backward then forward; a failure *)
(* drops what is left of the room.                                         *)
AddInitialCheckpoint(c) ==
    /\ setup = "seeding" /\ c \in seeds
    /\ c.dir = "f" => \A d \in seeds : d.room = c.room => d = c
    /\ \/ /\ phase # "closed"
          /\ stored' = stored \cup {c} /\ seeds' = seeds \ {c}
          /\ crawlerCheckpoints' = Append(crawlerCheckpoints, c)
          /\ UNCHANGED faults
       \/ /\ Fault
          /\ seeds' = {d \in seeds : d.room # c.room}
          /\ UNCHANGED <<stored, crawlerCheckpoints>>
    /\ UNCHANGED <<serverVars, clientVars, indexed, live, phase, setup, decrypting, checking,
                   adding, currentCheckpoint, crawler, cancelled, batch, overtaken, reloads, scenario>>

(* The end of the first sync's handler: startCrawler. *)
StartCrawler ==
    /\ setup \in {"seeding", "starting"} /\ seeds = {}
    /\ setup' = "done"
    /\ \/ /\ crawler = "off"
          /\ crawler' = "sleep" /\ cancelled' = FALSE /\ currentCheckpoint' = None
       \/ crawler # "off" /\ UNCHANGED <<crawler, cancelled, currentCheckpoint>>
    /\ UNCHANGED <<serverVars, clientVars, indexVars, phase, seeds, decrypting, checking,
                   adding, crawlerCheckpoints, batch, overtaken, bounds>>

----------------------------------------------------------------------------
(* THE CRAWLER *)

(* The head of the loop. *)
NextTurn ==
    /\ batch' = NoBatch
    /\ \/ cancelled /\ crawler' = "off" /\ UNCHANGED currentCheckpoint
       \/ ~cancelled /\ crawler' = "sleep" /\ currentCheckpoint' = None
    /\ UNCHANGED cancelled

Requeue(c) == crawlerCheckpoints' = Append(crawlerCheckpoints, c)

(* The sleep is over. *)
TakeCheckpoint ==
    /\ crawler = "sleep"
    /\ \/ /\ cancelled /\ crawler' = "off"
          /\ UNCHANGED <<crawlerCheckpoints, currentCheckpoint>>
       \/ /\ ~cancelled /\ crawlerCheckpoints # <<>>
          /\ currentCheckpoint' = Head(crawlerCheckpoints)
          /\ crawlerCheckpoints' = Tail(crawlerCheckpoints)
          /\ crawler' = "fetch"
       \/ /\ ~cancelled /\ crawlerCheckpoints = <<>>
          /\ UNCHANGED <<crawler, crawlerCheckpoints, currentCheckpoint>>
    /\ UNCHANGED <<serverVars, clientVars, indexVars, phase, handlerVars, cancelled, batch,
                   overtaken, bounds>>

(* The positions of a /messages response. *)
Chunk(c) ==
    IF c.dir = "b" THEN {p \in 1 .. c.token : p > c.token - scenario.batch}
                   ELSE {p \in (c.token + 1) .. Len(timeline[c.room]) : p <= c.token + scenario.batch}

(* The token it ends with. *)
End(c) ==
    IF c.dir = "b" THEN c.token - Cardinality(Chunk(c)) ELSE c.token + Cardinality(Chunk(c))

(* There is nothing behind the chunk, and the server may send no token.    *)
AtEnd(c) == IF c.dir = "b" THEN End(c) = 0 ELSE End(c) = Len(timeline[c.room])

Response(c) ==
    LET events == {<<c.room, p>> : p \in Chunk(c)}
    IN  [events |-> {e \in events : IsMessage(e) /\ ~Redacted(e, Len(timeline[c.room]))},
         gone |-> {<<c.room, timeline[c.room][e[2]]>> : e \in {d \in events : ~IsMessage(d)}},
         next |-> [c EXCEPT !.token = End(c)]]

(* createMessagesRequest returns: a cancelled crawler puts the checkpoint  *)
(* back and ends, an empty chunk ends the crawl of the checkpoint.         *)
MessagesResponse ==
    /\ crawler = "fetch"
    /\ LET c == currentCheckpoint IN
       \/ /\ cancelled
          /\ Requeue(c) /\ crawler' = "off"
          /\ UNCHANGED batch
       \/ /\ ~cancelled /\ Chunk(c) = {}
          /\ crawler' = "remove"
          /\ UNCHANGED <<crawlerCheckpoints, batch>>
       \/ /\ ~cancelled /\ Chunk(c) # {}
          /\ crawler' = "decrypt"
          /\ \/ batch' = Response(c)
             \/ AtEnd(c) /\ batch' = [Response(c) EXCEPT !.next = None]
          /\ UNCHANGED crawlerCheckpoints
    /\ UNCHANGED <<serverVars, clientVars, indexVars, phase, handlerVars, currentCheckpoint,
                   cancelled, overtaken, bounds>>

(* Mutant: a failed request is not tried again. *)
MessagesErrorDropped ==
    /\ crawler = "fetch"
    /\ \/ /\ scenario.forbidden /\ crawler' = "remove"
          /\ UNCHANGED <<crawlerCheckpoints, currentCheckpoint, cancelled, batch, faults>>
       \/ Fault /\ NextTurn /\ UNCHANGED crawlerCheckpoints
    /\ UNCHANGED <<serverVars, clientVars, indexVars, phase, handlerVars, overtaken, reloads,
                   scenario>>

(* createMessagesRequest fails: with 403 the checkpoint is given up, else  *)
(* it is tried again later.                                                *)
MessagesError ==
    /\ crawler = "fetch"
    /\ \/ /\ scenario.forbidden /\ crawler' = "remove"
          /\ UNCHANGED <<crawlerCheckpoints, currentCheckpoint, cancelled, batch, faults>>
       \/ Fault /\ Requeue(currentCheckpoint) /\ NextTurn
    /\ UNCHANGED <<serverVars, clientVars, indexVars, phase, handlerVars, overtaken, reloads,
                   scenario>>

(* removeCrawlerCheckpoint returns; a checkpoint that could not be removed *)
(* stays in the index only.                                                *)
CheckpointRemoved ==
    /\ crawler = "remove"
    /\ \/ phase # "closed" /\ stored' = stored \ {currentCheckpoint} /\ UNCHANGED faults
       \/ Fault /\ UNCHANGED stored
    /\ NextTurn
    /\ UNCHANGED <<serverVars, clientVars, indexed, live, phase, handlerVars,
                   crawlerCheckpoints, overtaken, reloads, scenario>>

(* The events that isValidEvent lets through once they are decrypted. *)
Valid(events) == {e \in events : ~KnownRedacted(e)}

(* The events are decrypted and filtered; one may fail to decrypt. *)
FilterEvents ==
    /\ crawler = "decrypt"
    /\ crawler' = "delete"
    /\ \/ /\ batch' = [batch EXCEPT !.events = Valid(@)]
          /\ UNCHANGED faults
       \/ /\ faults < scenario.faults /\ faults' = faults + 1
          /\ \E e \in batch.events : batch' = [batch EXCEPT !.events = Valid(@ \ {e})]
    /\ UNCHANGED <<serverVars, clientVars, indexVars, phase, handlerVars, crawlerCheckpoints,
                   currentCheckpoint, cancelled, overtaken, reloads, scenario>>

(* deleteEvent for the redactions of the batch, one after the other. *)
DeleteRedacted(e) ==
    /\ crawler = "delete" /\ e \in batch.gone
    /\ \/ /\ phase # "closed"
          /\ indexed' = indexed \ {e} /\ live' = live \ {e}
          /\ batch' = [batch EXCEPT !.gone = @ \ {e}]
          /\ UNCHANGED <<crawlerCheckpoints, currentCheckpoint, crawler, cancelled, faults>>
       \/ /\ Fault
          /\ Requeue(currentCheckpoint) /\ NextTurn
          /\ UNCHANGED <<indexed, live>>
    /\ UNCHANGED <<serverVars, clientVars, stored, phase, handlerVars, overtaken, reloads,
                   scenario>>

(* All events of the batch were in the index already. *)
AlreadyAdded == batch.events # {} /\ batch.events \subseteq indexed

(* Then addHistoricEvents. *)
AddHistoricEvents ==
    /\ crawler = "delete" /\ batch.gone = {}
    /\ \/ /\ phase # "closed"
          /\ indexed' = indexed \cup batch.events
          /\ stored' = (stored \ {currentCheckpoint}) \cup ({batch.next} \ {None})
          /\ \/ /\ batch.next = None /\ NextTurn
                /\ UNCHANGED crawlerCheckpoints
             \/ /\ batch.next # None /\ AlreadyAdded /\ ~currentCheckpoint.full
                /\ crawler' = "trim"
                /\ UNCHANGED <<crawlerCheckpoints, currentCheckpoint, cancelled, batch>>
             \/ /\ batch.next # None /\ ~(AlreadyAdded /\ ~currentCheckpoint.full)
                /\ Requeue(batch.next) /\ NextTurn
          /\ UNCHANGED faults
       \/ /\ Fault
          /\ Requeue(currentCheckpoint) /\ NextTurn
          /\ UNCHANGED <<indexed, stored>>
    /\ UNCHANGED <<serverVars, clientVars, live, phase, handlerVars, overtaken, reloads, scenario>>

(* The crawl has caught up: its new checkpoint is removed again. *)
CrawlTrimmed ==
    /\ crawler = "trim"
    /\ \/ /\ phase # "closed" /\ stored' = stored \ {batch.next}
          /\ UNCHANGED <<crawlerCheckpoints, faults>>
       \/ Fault /\ Requeue(currentCheckpoint) /\ UNCHANGED stored
    /\ NextTurn
    /\ UNCHANGED <<serverVars, clientVars, indexed, live, phase, handlerVars, overtaken,
                   reloads, scenario>>

----------------------------------------------------------------------------
(* close: listeners removed, crawler told to stop, index closed. *)
Close ==
    /\ scenario.canClose /\ phase \in {"loaded", "syncing"}
    /\ scenario.endInSetup \/ setup \notin {"asking", "seeding"}
    /\ phase' = "closed"
    /\ cancelled' = (crawler # "off" \/ cancelled)
    /\ UNCHANGED <<serverVars, clientVars, indexVars, handlerVars, crawlerCheckpoints,
                   currentCheckpoint, crawler, batch, overtaken, bounds>>

(* The page is reloaded or dies; the next one restores the saved sync      *)
(* position, and a live timeline of some length.                           *)
Reload ==
    /\ phase # "down" /\ reloads < scenario.reloads
    /\ scenario.endInSetup \/ setup \notin {"asking", "seeding"}
    /\ reloads' = reloads + 1
    /\ phase' = "down" /\ setup' = "idle" /\ seeds' = {}
    /\ seen' = saved
    /\ token' \in [Room -> 0 .. scenario.len] /\ \A r \in Room : token'[r] \in LiveTokens(saved[r])
    /\ live' = {} /\ decrypting' = {} /\ checking' = {} /\ adding' = {}
    /\ crawlerCheckpoints' = <<>> /\ currentCheckpoint' = None
    /\ crawler' = "off" /\ cancelled' = FALSE /\ batch' = NoBatch
    /\ UNCHANGED <<serverVars, saved, indexed, stored, overtaken, faults, scenario>>

Sync == CommitLiveEvents \/ SaveSync \/ FirstSync \/ \E r \in Room :
            OnRoomTimeline(r) \/ OnTimelineReset(r) \/ OnRoomStateEvent(r)
Handlers == \/ IsEventIndexEmpty \/ StartCrawler
            \/ \E r \in checking : IsRoomIndexed(r)
            \/ \E e \in decrypting : AddLiveEvent(e)
            \/ \E c \in adding : AddRoomCheckpoint(c)
            \/ \E c \in seeds : AddInitialCheckpoint(c)
CrawlerFunc == \/ TakeCheckpoint \/ MessagesResponse \/ MessagesError
               \/ CheckpointRemoved \/ FilterEvents
               \/ (\E e \in batch.gone : DeleteRedacted(e)) \/ AddHistoricEvents \/ CrawlTrimmed

Next ==
    \/ \E r \in Room : ServerEvent(r)
    \/ LoadCheckpoints \/ Sync \/ Handlers \/ CrawlerFunc
    \/ Close \/ Reload

Spec == Init /\ [][Next]_vars
----------------------------------------------------------------------------
(* SAFETY *)

(* The events that crawling c will still reach. *)
Covers(c, e) ==
    /\ c.room = e[1]
    /\ IF c.dir = "b" THEN e[2] <= c.token ELSE e[2] > c.token

(* No message of an encrypted room is forgotten: what the client will not  *)
(* sync again is in the index, or below a checkpoint that the index stores *)
(* - whatever the crawler, the listeners and a reload interleave, and with *)
(* the crawls that stop early because they seem to have caught up.         *)
NothingLost ==
    setup # "seeding" /\ ~(indexed = {} /\ stored = {}) =>
        \A e \in Event : \/ e[1] \notin encrypted \/ e[2] > saved[e[1]]
                         \/ ~IsMessage(e) \/ Redacted(e, Len(timeline[e[1]]))
                         \/ e \in indexed
                         \/ \E c \in stored : Covers(c, e)

(* What the code needs for that: a commit waits for the handlers of the    *)
(* events before it, no call has failed and none is forbidden, rooms are   *)
(* encrypted from the start and have a token, the seeding is not cut, and  *)
(* no event comes before the index has said whether it is empty.  (The     *)
(* sync that catches up after a start may bring one: the checkpoint of its *)
(* gap makes the index seem begun, and the other rooms are never seeded.)  *)
Undisturbed ==
    /\ scenario.inOrder /\ scenario.calmStart /\ ~scenario.forbidden /\ faults = 0
    /\ ~scenario.lateEncryption /\ ~scenario.wholeTimeline /\ ~scenario.endInSetup

(* Then no message is forgotten, in whichever order crawls in both         *)
(* directions, live events, gaps, commits, redactions and reloads come.    *)
OrderedNothingLost == Undisturbed => NothingLost

(* The checkpoints in memory. *)
Held == ToSet(crawlerCheckpoints) \cup {currentCheckpoint}

(* A stored checkpoint is dropped from memory only where the code gives it *)
(* up on purpose (the failed removal after a 403 or an empty chunk) or when *)
(* the page goes; otherwise it would not be crawled until the next restart. *)
NotForgotten ==
    [][\A c \in stored \cap stored' : c \in Held /\ c \notin Held' =>
           crawler = "remove" \/ phase' = "down"]_vars

(* The redaction of e came over the live timeline. *)
LiveRedaction(e) == \E q \in (token[e[1]] + 1) .. seen[e[1]] : timeline[e[1]][q] = e[2]

(* A redacted message that the client has loaded itself is not in the     *)
(* index once the client has seen the redaction: whether it waited for its *)
(* decryption, for a commit, or for the decryption of the crawler's batch. *)
(* The code loses the redaction in one place only: from the crawler's      *)
(* filter to the end of its add, which undoes it (overtaken).  A message    *)
(* that only the crawler has fetched may come back after redactEvent        *)
(* removed it, and be loaded after a reload; a deletion that fails is not   *)
(* repeated.                                                                *)
LoadedRedacted ==
    faults = 0 /\ reloads = 0 =>
        \A e \in (indexed \cup live) \ overtaken : Loaded(e) => ~LiveRedaction(e)

----------------------------------------------------------------------------
(* LIVENESS: requests are answered, promises settle, the client syncs. *)

Fairness ==
    /\ WF_vars(scenario.fair /\ LoadCheckpoints) /\ WF_vars(scenario.fair /\ FirstSync)
    /\ WF_vars(scenario.fair /\ CommitLiveEvents) /\ WF_vars(scenario.fair /\ Handlers)
    /\ \A r \in Room : WF_vars(scenario.fair /\ OnRoomTimeline(r))
    /\ WF_vars(scenario.fair /\ CrawlerFunc)

FairSpec == Spec /\ Fairness

(* Every message of the encrypted rooms ends up in the index, and the      *)
(* crawler runs out of checkpoints.                                        *)
CrawlFinishes ==
    <>[](scenario.fair =>
            \/ phase = "closed"
            \/ /\ stored = {} /\ crawlerCheckpoints = <<>>
               /\ \A r \in encrypted : \A p \in DOMAIN timeline[r] :
                     IsMessage(<<r, p>>) => <<r, p>> \in indexed)
=============================================================================
