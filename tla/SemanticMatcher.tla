--------------------------- MODULE SemanticMatcher ---------------------------
(***************************************************************************)
(* The semantic tier of the suggestions: one matcher per process, loaded   *)
(* by a warm-up thread that the API starts, or by the first search if that *)
(* comes first.  A lock guards the loading; searches run on the event loop *)
(* and read the flags, the rules and the embeddings without it.  Loading   *)
(* fails when the library or the model is not there.                       *)
(***************************************************************************)
CONSTANTS
  Versions,   \* rule versions
  Shipped,    \* the one in force when the process starts
  None

VARIABLES
  catalog,              \* the rules in force (get_catalog)
  model, rules, embedded, initialized,   \* of the matcher
  loading,              \* _model_loading
  holder, pc,           \* who holds the lock, and where each thread is
  answer                \* of the last search: whose scores, on whose rules

matcher == <<model, rules, embedded, initialized>>
vars == <<catalog, matcher, loading, holder, pc, answer>>

\* The warm-up runs _initialize; the event loop runs search, which may.
Threads == {"warmup", "loop"}

MatcherAssumption == Shipped \in Versions /\ None \notin Versions \cup Threads

Guarded == {"inside", "importing", "loaded", "encoding", "encoded", "failed", "leaving"}
Places == Guarded \cup {"idle", "checked", "waiting", "ready", "scored", "done"}
NoAnswer == [scores |-> None, of |-> None]

TypeOK ==
  /\ catalog \in Versions
  /\ model \in BOOLEAN /\ initialized \in BOOLEAN /\ loading \in BOOLEAN
  /\ rules \in Versions \cup {None} /\ embedded \in Versions \cup {None}
  /\ holder \in Threads \cup {None}
  /\ pc \in [Threads -> Places]
  /\ \A t \in Threads : holder = t <=> pc[t] \in Guarded
  /\ answer \in [scores : Versions \cup {None}, of : Versions \cup {None}]

Init ==
  /\ catalog = Shipped
  /\ model = FALSE /\ rules = None /\ embedded = None /\ initialized = FALSE
  /\ loading = FALSE
  /\ holder = None
  /\ pc = [t \in Threads |-> "idle"]
  /\ answer = NoAnswer

Go(t, from, to) == pc[t] = from /\ pc' = [pc EXCEPT ![t] = to]

is_ready == initialized /\ model /\ embedded # None

model_status ==
  IF loading THEN "loading"
  ELSE IF initialized /\ ~ model THEN "unavailable" ELSE "ready"

-----------------------------------------------------------------------------
\* A rule version is activated by a handler, on the event loop.
Activate(v) ==
  /\ pc["loop"] = "idle"
  /\ catalog' = v
  /\ UNCHANGED <<matcher, loading, holder, pc, answer>>

Warmup ==
  /\ Go("warmup", "idle", "waiting")
  /\ UNCHANGED <<catalog, matcher, loading, holder, answer>>

\* A search reads the two flags one after the other.
Search ==
  /\ Go("loop", "idle", IF initialized THEN "ready" ELSE "checked")
  /\ answer' = NoAnswer
  /\ UNCHANGED <<catalog, matcher, loading, holder>>
Check ==
  /\ Go("loop", "checked", IF loading THEN "ready" ELSE "waiting")
  /\ UNCHANGED <<catalog, matcher, loading, holder, answer>>

Acquire(t) ==
  /\ Go(t, "waiting", "inside")
  /\ holder = None
  /\ holder' = t
  /\ UNCHANGED <<catalog, matcher, loading, answer>>

\* Under the lock the flag is read again.
Enter(t) ==
  /\ Go(t, "inside", IF initialized THEN "leaving" ELSE "importing")
  /\ loading' = ~ initialized
  /\ UNCHANGED <<catalog, matcher, holder, answer>>

Import(t) ==
  /\ Go(t, "importing", "loaded")
  /\ model' = TRUE
  /\ UNCHANGED <<catalog, rules, embedded, initialized, loading, holder, answer>>
TakeRules(t) ==
  /\ Go(t, "loaded", "encoding")
  /\ rules' = catalog
  /\ UNCHANGED <<catalog, model, embedded, initialized, loading, holder, answer>>
Encode_Current(t) ==
  /\ Go(t, "encoding", "encoded")
  /\ embedded' = catalog
  /\ UNCHANGED <<catalog, model, rules, initialized, loading, holder, answer>>
Encode(t) ==
  /\ Go(t, "encoding", "encoded")
  /\ embedded' = rules
  /\ UNCHANGED <<catalog, model, rules, initialized, loading, holder, answer>>
Publish(t) ==
  /\ Go(t, "encoded", "leaving")
  /\ initialized' = TRUE
  /\ UNCHANGED <<catalog, model, rules, embedded, loading, holder, answer>>

\* An exception of the import, the model or the encoding, and its handler.
Raise(t) ==
  /\ pc[t] \in {"importing", "encoding"}
  /\ pc' = [pc EXCEPT ![t] = "failed"]
  /\ UNCHANGED <<catalog, matcher, loading, holder, answer>>
GiveUp(t) ==
  /\ Go(t, "failed", "leaving")
  /\ model' = FALSE /\ initialized' = TRUE
  /\ UNCHANGED <<catalog, rules, embedded, loading, holder, answer>>

\* The finally clause, and the end of the with statement.
After(t) == IF t = "loop" THEN "ready" ELSE "done"
Leave_StillLoading(t) ==
  /\ Go(t, "leaving", After(t))
  /\ loading' = (loading /\ ~ model)
  /\ holder' = None
  /\ UNCHANGED <<catalog, matcher, answer>>
Leave(t) ==
  /\ Go(t, "leaving", After(t))
  /\ loading' = FALSE
  /\ holder' = None
  /\ UNCHANGED <<catalog, matcher, answer>>

\* The scores are computed with the embeddings, and index the rules.
Unready ==
  /\ Go("loop", "ready", "idle")
  /\ ~ is_ready
  /\ UNCHANGED <<catalog, matcher, loading, holder, answer>>
Score ==
  /\ Go("loop", "ready", "scored")
  /\ is_ready
  /\ answer' = [answer EXCEPT !.scores = embedded]
  /\ UNCHANGED <<catalog, matcher, loading, holder>>
Answer ==
  /\ Go("loop", "scored", "idle")
  /\ answer' = [answer EXCEPT !.of = rules]
  /\ UNCHANGED <<catalog, matcher, loading, holder>>

_initialize(t) ==
  \/ Acquire(t) \/ Enter(t) \/ Import(t) \/ TakeRules(t)
  \/ Encode(t) \/ Publish(t) \/ Raise(t) \/ GiveUp(t) \/ Leave(t)
search == Check \/ Unready \/ Score \/ Answer

Next ==
  \/ Warmup \/ Search \/ search
  \/ \E t \in Threads : _initialize(t)
  \/ \E v \in Versions : Activate(v)

Spec == Init /\ [][Next]_vars

-----------------------------------------------------------------------------
\* The scores of an answer are those of the rules it names, although the
\* catalog may change while the rules are encoded.
ScoresFitRules ==
  pc["loop"] = "idle" /\ answer # NoAnswer => answer.scores = answer.of

\* The loader is shown only while a thread loads, a failure included
\* (model_status).
LoadingIsHeld == loading => \E t \in Threads : holder = t

\* "Never blocks HTTP requests if the model is currently loading" (search).
NeverBlocks == ~ (loading /\ holder = "warmup" /\ pc["loop"] = "waiting")

\* "against the active ICAO Doc 8126 selection-criteria catalog": an answer
\* is of the rules in force when it was given (narrative.py).
AnswersAreCurrent == pc["loop"] = "scored" => answer.scores = catalog
=============================================================================
