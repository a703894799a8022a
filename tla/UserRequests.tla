---------------------------- MODULE UserRequests ----------------------------
(***************************************************************************)
(* What a user's requests cost, leave in the catalog and let be heard: the *)
(* message handler, the catalog and the "short summary" button, over the   *)
(* memory session store, the catalog and the daily limits.                 *)
(*                                                                         *)
(* One action is one stretch of a handler between two awaits that suspend. *)
(* Session calls do not suspend with the memory store.  Reading itself is  *)
(* left to ReadingPipeline: here a session is "voicing" until its          *)
(* send_chunk job is done.                                                 *)
(***************************************************************************)
EXTENDS UsageLimits, Sequences

CONSTANTS Contents,       \* texts
          MaxDocs,        \* bound: rows ever inserted
          MaxSessions,    \* bound: sessions ever opened
          MaxRequests,    \* bound: handlers ever started
          MaxFailures     \* bound: calls to Telegram or the database that raise

ASSUME RequestsAssumption ==
    /\ {"input", "summary"} \subseteq Kinds
    /\ MaxDocs \in Nat \ {0}

VARIABLE docs
INSTANCE DocumentCatalog WITH Owners <- Users

VARIABLES
    session,    \* _reading_sessions: the session of each user
    handler,    \* where each handler is suspended, and its local variables
    lockOf,     \* _user_processing_locks and _catalog_open_locks; 0: no entry
    lockUses,   \* _user_processing_lock_usage and _catalog_open_lock_usage
    voicing,    \* sessions with a send_chunk job outstanding
    opened, requests, failures,
    unfair      \* history: finished requests charged for nothing, or nothing for something

lockVars == <<lockOf, lockUses>>
countVars == <<opened, requests, failures>>
requestVars == <<docs, session, voicing, handler, lockVars, countVars, unfair>>
allVars == <<usageVars, requestVars>>

NoSession == [sid |-> 0, doc |-> 0, content |-> 0, summary |-> 0, audio |-> 0,
              delivered |-> FALSE, generating |-> FALSE]
Idle == [at |-> "idle", user |-> 0, content |-> 0, doc |-> 0, session |-> NoSession,
         scope |-> "none", lock |-> 0]

Scopes == {"message", "catalog"}
Locks == 1..Cardinality(Handlers)
LockKeys == Users \X Scopes
LockKey(h) == <<handler[h].user, handler[h].scope>>

RequestsInit ==
    /\ UsageInit
    /\ CatalogInit
    /\ session = [u \in Users |-> NoSession]
    /\ handler = [h \in Handlers |-> Idle]
    /\ lockOf = [k \in LockKeys |-> 0]
    /\ lockUses = [k \in LockKeys |-> 0]
    /\ voicing = {}
    /\ opened = 0
    /\ requests = 0
    /\ failures = 0
    /\ unfair = {}

------------------------------------------------------------------------------
\* The memory session store, as in ReadingPipeline.

Updated(u, s) == IF session[u].sid # 0 THEN [session EXCEPT ![u] = s] ELSE session

\* has_current_reading_session and finish_reading_generation: whichever session the
\* user has by now.
Finished(u) == Updated(u, [session[u] EXCEPT !.generating = FALSE])

\* A handler keeps the dictionary it read; while it is the stored one, both change.
Local(h) ==
    LET s == handler[h].session u == handler[h].user IN
    IF session[u].sid = s.sid THEN session[u] ELSE s

------------------------------------------------------------------------------
\* Locks per user with a count of their users; the catalog's are the same code.

\* A lock that no handler refers to stands for the one asyncio.Lock() creates.
FreshLock == CHOOSE l \in Locks : \A h \in Handlers : handler[h].lock # l

ReserveLock(h, u, scope) ==
    LET l == IF lockOf[<<u, scope>>] = 0 THEN FreshLock ELSE lockOf[<<u, scope>>] IN
    /\ lockOf' = [lockOf EXCEPT ![<<u, scope>>] = l]
    /\ lockUses' = [lockUses EXCEPT ![<<u, scope>>] = @ + 1]
    /\ handler' = [handler EXCEPT ![h] =
                     [Idle EXCEPT !.at = "queued", !.user = u, !.scope = scope, !.lock = l]]

\* Slip: the entry is dropped by the first handler to leave.
ReleaseUncounted(h) ==
    /\ lockUses' = [lockUses EXCEPT ![LockKey(h)] = @ - 1]
    /\ lockOf' = [lockOf EXCEPT ![LockKey(h)] = 0]

\* The last user drops the entry; the lock it held is free by then.
ReleaseLock(h) ==
    LET k == LockKey(h) IN
    /\ lockUses' = [lockUses EXCEPT ![k] = @ - 1]
    /\ lockOf' = [lockOf EXCEPT ![k] = IF lockUses[k] > 1 THEN @ ELSE 0]

Holds(h) == handler[h].lock # 0 /\ handler[h].at # "queued"
LockFree(l) == \A h \in Handlers : ~(Holds(h) /\ handler[h].lock = l)

------------------------------------------------------------------------------
\* Requests end: the charge that is left is the ticket's.

Charged(h) == ticket[h].step \in {"granted", "unreturned"}
TicketDropped(h) ==
    /\ ticket' = [ticket EXCEPT ![h] = NoTicket]
    /\ UNCHANGED <<today, counter, limit, premium, adjusting, edits, net, highest, disturbed>>

\* cause: what raised where nothing refunds, if anything did.
Ends(h, delivered, cause) ==
    /\ unfair' = IF ticket[h].step = "none" \/ Charged(h) = delivered THEN unfair
                 ELSE unfair \cup {IF ticket[h].step = "unreturned" THEN "database" ELSE cause}
    /\ TicketDropped(h)
    /\ handler' = [handler EXCEPT ![h] = Idle]

Fails == failures < MaxFailures /\ failures' = failures + 1 /\ UNCHANGED <<opened, requests>>
At(h, at) == handler[h].at = at
Goes(h, at) == handler' = [handler EXCEPT ![h].at = at]

------------------------------------------------------------------------------
\* Messages: handle_message and _process_message.

\* A message, or a press on a button of the catalog.
Arrive(h, u, scope) ==
    /\ At(h, "idle")
    /\ scope = "catalog" => docs # <<>>
    /\ requests < MaxRequests
    /\ requests' = requests + 1
    /\ ReserveLock(h, u, scope)
    /\ UNCHANGED <<usageVars, docs, session, voicing, opened, failures, unfair>>

\* Inside the lock: a busy session refuses the message; otherwise the session is
\* dropped, and the reservation starts at once.
StartMessage(h) ==
    LET u == handler[h].user IN
    /\ At(h, "queued")
    /\ handler[h].scope = "message"
    /\ LockFree(handler[h].lock)
    /\ IF session[u].generating
       THEN Goes(h, "leaving") /\ UNCHANGED <<usageVars, session>>
       ELSE \E c \in Contents :
              /\ handler' = [handler EXCEPT ![h].at = "reserving", ![h].content = c]
              /\ session' = [session EXCEPT ![u] = NoSession]
              /\ Reserve(h, u, "input")
    /\ UNCHANGED <<docs, voicing, lockVars, countVars, unfair>>

\* Slip: a failed extraction is not given back.
ExtractKeepsCharge(h) ==
    /\ At(h, "extracting")
    /\ handler' \in {[handler EXCEPT ![h].at = "saving"], [handler EXCEPT ![h].at = "leaving"]}
    /\ UNCHANGED <<usageVars, docs, session, voicing, lockVars, countVars, unfair>>

\* The status message comes before the try block: when it raises, nothing is refunded.
Analyze(h) ==
    /\ At(h, "reserving")
    /\ ticket[h].step = "granted"
    /\ Goes(h, "extracting")
    /\ UNCHANGED <<usageVars, docs, session, voicing, lockVars, countVars, unfair>>

\* No text, an error text, an exception, or no chunks: the charge is given back.
Extract(h) ==
    /\ At(h, "extracting")
    /\ \/ Goes(h, "saving") /\ UNCHANGED usageVars
       \/ Goes(h, "leaving") /\ Refund(h)
    /\ UNCHANGED <<docs, session, voicing, lockVars, countVars, unfair>>

\* A failed insert is logged, and the material is read without a catalog entry.
Save(h) ==
    /\ At(h, "saving")
    /\ \/ /\ Len(docs) < MaxDocs
          /\ docs' = RowAdded(handler[h].user, handler[h].content)
          /\ handler' = [handler EXCEPT ![h].at = "matching", ![h].doc = Len(docs) + 1]
          /\ UNCHANGED failures
       \/ /\ failures < MaxFailures
          /\ failures' = failures + 1
          /\ Goes(h, "matching")
          /\ UNCHANGED docs
    /\ UNCHANGED <<usageVars, session, voicing, lockVars, opened, requests, unfair>>

\* start_reading_session drops whatever session there is; the new one holds its lock.
Opens(h, u, doc, content, summary, audio) ==
    /\ opened < MaxSessions
    /\ opened' = opened + 1
    /\ session' = [session EXCEPT ![u] =
          [NoSession EXCEPT !.sid = opened + 1, !.doc = doc, !.content = content,
                            !.summary = summary, !.audio = audio, !.generating = TRUE]]
    /\ handler' = [handler EXCEPT ![h].at = "announcing", ![h].session.sid = opened + 1]

\* get_cached_summary_for_text: a summary of the same text saves an AI call.
Match(h) ==
    LET r == handler[h]
        twins == Twins(r.user, r.content, r.doc)
        open(s, a) == Opens(h, r.user, r.doc, r.content, s, a) IN
    /\ At(h, "matching")
    /\ \/ twins = {} /\ open(None, None)
       \/ \E n \in twins : open(docs[n].summary, docs[n].audio)
    /\ UNCHANGED <<usageVars, docs, voicing, lockVars, requests, failures, unfair>>

\* The answer is sent and the send_chunk job accepted; the handler leaves the lock.
Announce(h) ==
    /\ At(h, "announcing")
    /\ voicing' = voicing \cup {handler[h].session.sid}
    /\ Ends(h, TRUE, "none")
    /\ ReleaseLock(h)
    /\ UNCHANGED <<docs, session, countVars>>

\* Telegram fails where nothing catches it: the handler ends as it is.
MessageRaises(h) ==
    /\ \/ At(h, "reserving") /\ ticket[h].step = "granted"
       \/ At(h, "saving") \/ At(h, "announcing")
    /\ Fails
    /\ Ends(h, FALSE, "telegram")
    /\ ReleaseLock(h)
    /\ UNCHANGED <<docs, session, voicing>>

\* Refused, refunded or busy: the last answer is sent.
Leave(h) ==
    /\ \/ At(h, "leaving") /\ ticket[h].step # "refund"
       \/ At(h, "reserving") /\ ticket[h].step = "refused"
    /\ Ends(h, FALSE, "none")
    /\ ReleaseLock(h)
    /\ UNCHANGED <<docs, session, voicing, countVars>>

\* send_audio_chunk_now ends: finish_generation_if_session.
ChunkDone(s) ==
    /\ voicing' = voicing \ {s}
    /\ session' = [u \in Users |->
          IF session[u].sid = s THEN [session[u] EXCEPT !.generating = FALSE] ELSE session[u]]
    /\ UNCHANGED <<usageVars, docs, handler, lockVars, countVars, unfair>>

------------------------------------------------------------------------------
\* The catalog: open_catalog_document and _open_catalog_document_locked.

\* The session is looked at once, before the row is read and the answers are sent.
StartOpen(h) ==
    LET u == handler[h].user IN
    /\ At(h, "queued")
    /\ handler[h].scope = "catalog"
    /\ LockFree(handler[h].lock)
    /\ \E n \in DOMAIN docs :
          IF session[u].doc = n \/ session[u].generating
          THEN Goes(h, "leaving")
          ELSE handler' = [handler EXCEPT ![h].at = "fetching", ![h].doc = n]
    /\ UNCHANGED <<usageVars, docs, session, voicing, lockVars, countVars, unfair>>

Fetch(h) ==
    LET n == handler[h].doc IN
    /\ At(h, "fetching")
    /\ IF OwnRow(handler[h].user, n)
       THEN handler' = [handler EXCEPT ![h].at = "opening", ![h].content = docs[n].content,
                          ![h].session.summary = docs[n].summary,
                          ![h].session.audio = docs[n].audio]
       ELSE Goes(h, "leaving")
    /\ UNCHANGED <<usageVars, docs, session, voicing, lockVars, countVars, unfair>>

StartFromCatalog(h) ==
    LET r == handler[h] IN
    /\ At(h, "opening")
    /\ Opens(h, r.user, r.doc, r.content, r.session.summary, r.session.audio)
    /\ UNCHANGED <<usageVars, docs, voicing, lockVars, requests, failures, unfair>>

------------------------------------------------------------------------------
\* The "short summary" button: process_read_summary.

PressSummary(h, u) ==
    LET s == session[u] IN
    /\ At(h, "idle")
    /\ requests < MaxRequests
    /\ requests' = requests + 1
    /\ s.sid # 0 /\ ~s.generating
    /\ session' = [session EXCEPT ![u].generating = TRUE]
    /\ IF s.summary = None
       THEN /\ Reserve(h, u, "summary")
            /\ handler' = [handler EXCEPT ![h] =
                  [Idle EXCEPT !.at = "charging", !.user = u, !.session = s]]
       ELSE /\ ~s.delivered
            /\ handler' = [handler EXCEPT ![h] =
                  [Idle EXCEPT !.at = "repeating", !.user = u, !.session = s]]
            /\ UNCHANGED usageVars
    /\ UNCHANGED <<docs, voicing, lockVars, opened, failures, unfair>>

\* The answers, the AI call, the settings, the voice or the sending fail or raise.
SummaryFails(h) ==
    /\ \/ At(h, "charging") /\ ticket[h].step = "granted"
       \/ At(h, "voicing")
    /\ Refund(h)
    /\ Goes(h, "apologising")
    /\ UNCHANGED <<docs, session, voicing, lockVars, countVars, unfair>>

Summarize(h) ==
    /\ At(h, "charging")
    /\ ticket[h].step = "granted"
    /\ Goes(h, "voicing")
    /\ UNCHANGED <<usageVars, docs, session, voicing, lockVars, countVars, unfair>>

\* The voice is sent; from here on nothing is refunded.  The summary goes into the
\* session that the user has now.
SummarySent(h) ==
    LET r == handler[h] IN
    /\ At(h, "voicing")
    /\ session' = Updated(r.user,
          [session[r.user] EXCEPT !.summary = r.session.content, !.delivered = FALSE])
    /\ handler' = [handler EXCEPT ![h].at = "storing", ![h].session.summary = r.session.content]
    /\ UNCHANGED <<usageVars, docs, voicing, lockVars, countVars, unfair>>

\* Slip: the summary is stored with the document of the user's current session.
StoreSummaryCurrent(h) ==
    LET r == handler[h] IN
    /\ At(h, "storing")
    /\ docs' = SummarySaved(r.user, session[r.user].doc, r.session.summary)
    /\ session' = Updated(r.user,
          [session[r.user] EXCEPT !.delivered = TRUE, !.audio = r.session.summary])
    /\ Goes(h, "keeping")
    /\ UNCHANGED <<usageVars, voicing, lockVars, countVars, unfair>>

\* The catalog entry is that of the handler's own session; then _mark_summary_delivered.
StoreSummary(h) ==
    LET r == handler[h] IN
    /\ At(h, "storing")
    /\ docs' = SummarySaved(r.user, r.session.doc, r.session.summary)
    /\ session' = Updated(r.user,
          [session[r.user] EXCEPT !.delivered = TRUE, !.audio = r.session.summary])
    /\ handler' = [handler EXCEPT ![h].at = "keeping", ![h].session.audio = r.session.summary]
    /\ UNCHANGED <<usageVars, voicing, lockVars, countVars, unfair>>

\* The voice is stored too, and the generation of the current session finished.
KeepVoice(h) ==
    LET r == handler[h] IN
    /\ At(h, "keeping")
    /\ docs' = AudioSaved(r.user, r.session.doc, r.session.audio)
    /\ session' = Finished(r.user)
    /\ Ends(h, TRUE, "none")
    /\ UNCHANGED <<voicing, lockVars, countVars>>

\* No reservation, a refunded one, or a failed repeat: only the lock is left.
SummaryEnds(h) ==
    /\ \/ At(h, "charging") /\ ticket[h].step = "refused"
       \/ At(h, "apologising") /\ ticket[h].step # "refund"
    /\ session' = Finished(handler[h].user)
    /\ Ends(h, FALSE, "none")
    /\ UNCHANGED <<docs, voicing, lockVars, countVars>>

\* _send_cached_summary: the stored voice if it matches the settings, else the stored
\* text is voiced again.
Repeat(h) ==
    LET s == Local(h) r == handler[h] IN
    /\ At(h, "repeating")
    /\ \/ \E voice \in {s.summary, s.audio} \ {None} :
             /\ session' = Updated(r.user,
                   [session[r.user] EXCEPT !.delivered = TRUE, !.audio = voice])
             /\ handler' = [handler EXCEPT ![h].at = "keeping",
                                           ![h].session = [s EXCEPT !.audio = voice]]
       \/ Goes(h, "apologising") /\ UNCHANGED session
    /\ UNCHANGED <<usageVars, docs, voicing, lockVars, countVars, unfair>>

------------------------------------------------------------------------------
\* The rest of the user's world.

\* "Finish", or the runtime half of /delete_my_data.
Stop(u) ==
    /\ session[u].sid # 0
    /\ session' = [session EXCEPT ![u] = NoSession]
    /\ UNCHANGED <<usageVars, docs, voicing, handler, lockVars, countVars, unfair>>

\* Rows go; usage counters stay, whatever is deleted.
Delete ==
    /\ edits < MaxEdits
    /\ edits' = edits + 1
    /\ DeleteRow \/ ClearCatalog \/ DeleteOlder
    /\ UNCHANGED <<today, counter, limit, premium, adjusting, ticket, net, highest, disturbed>>
    /\ UNCHANGED <<session, voicing, handler, lockVars, countVars, unfair>>

UsageQuery(h) ==
    /\ UsageStep(h)
    /\ UNCHANGED requestVars

RefundFails(h) ==
    /\ DecrementFails(h)
    /\ Fails
    /\ UNCHANGED <<docs, session, voicing, handler, lockVars, unfair>>

World ==
    /\ Midnight \/ AdminStep
    /\ UNCHANGED requestVars

RequestsNext ==
    \/ \E h \in Handlers :
          \/ \E u \in Users : PressSummary(h, u) \/ \E scope \in Scopes : Arrive(h, u, scope)
          \/ StartMessage(h) \/ Analyze(h) \/ Extract(h) \/ Save(h) \/ Match(h)
          \/ Announce(h) \/ MessageRaises(h) \/ Leave(h)
          \/ StartOpen(h) \/ Fetch(h) \/ StartFromCatalog(h)
          \/ Summarize(h) \/ SummaryFails(h) \/ SummarySent(h) \/ StoreSummary(h)
          \/ KeepVoice(h) \/ SummaryEnds(h) \/ Repeat(h)
          \/ UsageQuery(h) \/ RefundFails(h)
    \/ \E u \in Users : Stop(u)
    \/ \E s \in voicing : ChunkDone(s)
    \/ Delete \/ World

RequestsSpec == RequestsInit /\ [][RequestsNext]_allVars

------------------------------------------------------------------------------
\* Properties.

RequestsTypeOK ==
    /\ UsageTypeOK
    /\ Len(docs) \in 0..MaxDocs
    /\ \A u \in Users : session[u].sid \in 0..opened /\ session[u].doc \in 0..Len(docs)
    /\ voicing \subseteq 1..opened
    /\ lockOf \in [LockKeys -> 0..Cardinality(Handlers)]
    /\ lockUses \in [LockKeys -> 0..Cardinality(Handlers)]

\* At most one handler of a user works inside the intake lock, and one inside the
\* catalog's, although the table entry comes and goes with its users.
OneHandlerPerLock ==
    \A g, h \in Handlers :
       (Holds(g) /\ Holds(h) /\ LockKey(g) = LockKey(h)) => g = h

\* The tables hold exactly the locks that handlers use: none is left behind.
LockTableExact ==
    \A k \in LockKeys :
       LET users == {h \in Handlers : handler[h].lock # 0 /\ LockKey(h) = k} IN
       /\ lockUses[k] = Cardinality(users)
       /\ lockOf[k] = 0 <=> users = {}
       /\ \A h \in users : handler[h].lock = lockOf[k]

\* The locks of messages and catalog do their work and are thrown away with it.
LocksExact == OneHandlerPerLock /\ LockTableExact

\* Who got nothing pays nothing, and who got something pays: a finished request is
\* charged exactly when its material was opened or its summary sent, unless a call to
\* Telegram outside the try blocks raised or the refund itself failed.
ChargeMatchesDelivery == "none" \notin unfair

\* A session whose summary counts as delivered has had the summary of its own text: the
\* keyboard of its parts hides the summary button, and the message after the last part
\* says that the summary of the file was made.
SummaryIsOwn ==
    \A u \in Users :
       session[u].delivered =>
           session[u].content \in {session[u].summary, session[u].audio}
=============================================================================
