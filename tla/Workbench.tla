------------------------------ MODULE Workbench ------------------------------
(***************************************************************************)
(* The workbench page of one request, open in the browsers of several      *)
(* members of staff: a form, the draft last loaded or saved, the request   *)
(* as the server rendered it, and answers that arrive when they do.  The   *)
(* API is taken one handler at a time (NotamLifecycle); a text stands for  *)
(* all that the form holds, 0 for what the request itself fills in.        *)
(***************************************************************************)
EXTENDS Naturals, FiniteSets

CONSTANTS
  Pages,      \* pages, each of its own user, who may prepare and review
  MaxSaves,   \* bound: saves that are sent
  MaxOpens,   \* bound: times a page is opened or reloaded by its user
  Patient     \* TRUE: nobody acts before the page has loaded its draft

WorkbenchAssumption ==
  /\ Pages # {} /\ IsFiniteSet(Pages)
  /\ MaxSaves \in Nat /\ MaxOpens \in Nat /\ Patient \in BOOLEAN

VARIABLES
  status, draft,   \* of the request: its status, and how often it was saved
  text, author,    \* of each saved draft
  page,            \* what each page holds
  main, side,      \* the calls of the guarded buttons, and of "Save draft"
  saves, opens

server == <<status, draft, text, author>>
vars == <<server, page, main, side, saves, opens>>

EDITABLE_STATUSES == {"received", "draft", "changes_requested"}
Statuses == EDITABLE_STATUSES \cup {"review", "approved"}
Drafts == 0..MaxSaves

NoCall == [do |-> "none", at |-> "none", text |-> 0, typed |-> FALSE, draft |-> 0]
Closed == [open |-> FALSE, status |-> "received", fills |-> TRUE, shown |-> 0,
           text |-> 0, typed |-> FALSE, load |-> "none", loaded |-> 0,
           busy |-> FALSE, stale |-> FALSE]

Calls == [do : {"none", "save", "submit", "approve", "return"},
          at : {"none", "sent", "done", "failed"},
          text : Drafts, typed : BOOLEAN, draft : Drafts]

TypeOK ==
  /\ status \in Statuses /\ draft \in Drafts
  /\ status = "received" <=> draft = 0
  /\ text \in [Drafts -> Drafts] /\ author \in [Drafts -> Pages]
  /\ page \in [Pages -> [open : BOOLEAN, status : Statuses, fills : BOOLEAN, shown : Drafts,
                         text : Drafts, typed : BOOLEAN,
                         load : {"none", "asked", "served", "failed"}, loaded : Drafts,
                         busy : BOOLEAN, stale : BOOLEAN]]
  /\ main \in [Pages -> Calls] /\ side \in [Pages -> Calls]
  /\ saves \in 0..MaxSaves /\ opens \in 0..MaxOpens

Init ==
  /\ status = "received" /\ draft = 0
  /\ text = [d \in Drafts |-> 0]
  /\ author = [d \in Drafts |-> CHOOSE p \in Pages : TRUE]
  /\ page = [p \in Pages |-> Closed]
  /\ main = [p \in Pages |-> NoCall] /\ side = [p \in Pages |-> NoCall]
  /\ saves = 0 /\ opens = 0

Editable(p) == page[p].open /\ page[p].status \in EDITABLE_STATUSES
Ready(p) == page[p].open /\ (Patient => page[p].load \in {"none", "failed"})
calls == <<main, side, saves>>

-----------------------------------------------------------------------------
\* The page is rendered with the request of now and asks for its draft; what
\* loadNotam will do depends on the status it was rendered with.
Open(p) ==
  /\ main[p] = NoCall /\ side[p] = NoCall
  /\ opens < MaxOpens /\ opens' = opens + 1
  /\ page' = [page EXCEPT ![p] = [Closed EXCEPT
       !.open = TRUE, !.status = status, !.fills = status \in EDITABLE_STATUSES, !.load = "asked"]]
  /\ UNCHANGED <<server, calls>>

\* "Retry", under an error of a page that is read only.
Retry(p) ==
  /\ page[p].open /\ ~ Editable(p)
  /\ page[p].load = "failed" /\ page[p].shown = 0
  /\ page' = [page EXCEPT ![p].load = "asked", ![p].fills = FALSE]
  /\ UNCHANGED <<server, calls, opens>>

ServeLoad(p) ==
  /\ page[p].load = "asked"
  /\ page' = [page EXCEPT ![p].load = "served", ![p].loaded = draft]
  /\ UNCHANGED <<server, calls, opens>>

Loaded_WithoutReset(p, d) ==
  [page[p] EXCEPT !.load = "none", !.loaded = 0, !.shown = d]
Loaded(p, d) ==
  IF page[p].fills
  THEN [page[p] EXCEPT !.load = "none", !.loaded = 0, !.shown = d,
                       !.text = text[d], !.typed = FALSE]
  ELSE [page[p] EXCEPT !.load = "none", !.loaded = 0, !.shown = d]

AnswerLoad(p) ==
  /\ page[p].load = "served"
  /\ page' = [page EXCEPT ![p] = Loaded(p, page[p].loaded)]
  /\ UNCHANGED <<server, calls, opens>>
FailLoad(p) ==
  /\ page[p].load \in {"asked", "served"}
  /\ page' = [page EXCEPT ![p].load = "failed", ![p].loaded = 0]
  /\ UNCHANGED <<server, calls, opens>>

Type(p) ==
  /\ Editable(p) /\ Ready(p)
  /\ page' = [page EXCEPT ![p].typed = TRUE]
  /\ UNCHANGED <<server, calls, opens>>

-----------------------------------------------------------------------------
Call(p, what) ==
  IF what = "save" THEN [NoCall EXCEPT !.do = what, !.at = "sent",
                                       !.text = page[p].text, !.typed = page[p].typed]
  ELSE [NoCall EXCEPT !.do = what, !.at = "sent"]

\* "Save draft" is not disabled while another call is under way; a bound:
\* a page has at most one such save in flight.
Save(p) ==
  /\ Editable(p) /\ Ready(p) /\ side[p] = NoCall
  /\ saves < MaxSaves /\ saves' = saves + 1
  /\ side' = [side EXCEPT ![p] = Call(p, "save")]
  /\ page' = [page EXCEPT ![p].busy = TRUE]
  /\ UNCHANGED <<server, main, opens>>

\* The buttons that are: submit, which saves first, and those of a review.
Press(p, what) ==
  /\ Ready(p) /\ ~ page[p].busy /\ main[p] = NoCall
  /\ main' = [main EXCEPT ![p] = Call(p, what)]
  /\ page' = [page EXCEPT ![p].busy = TRUE]
  /\ UNCHANGED <<server, side, opens>>
sendForReview(p) ==
  /\ Editable(p) /\ Press(p, "save")
  /\ saves < MaxSaves /\ saves' = saves + 1
doApprove(p) ==
  /\ page[p].status = "review" /\ Press(p, "approve")
  /\ UNCHANGED saves
doRequestChanges(p) ==
  /\ page[p].status = "review" /\ Press(p, "return")
  /\ UNCHANGED saves

\* The handlers of the API: what each accepts and what it then does.
Accepts(p, c) ==
  CASE c.do = "save" -> status \in EDITABLE_STATUSES
    [] c.do = "submit" -> status = "draft"
    [] c.do = "approve" -> status = "review" /\ author[draft] # p
    [] c.do = "return" -> status = "review"

Target_Kept(what) ==
  CASE what = "save" -> status
    [] what = "submit" -> "review"
    [] what = "approve" -> "approved"
    [] what = "return" -> "changes_requested"
Target(what) ==
  CASE what = "save" -> "draft"
    [] what = "submit" -> "review"
    [] what = "approve" -> "approved"
    [] what = "return" -> "changes_requested"

Handle(p, c) ==
  /\ status' = Target(c.do)
  /\ IF c.do = "save"
     THEN /\ draft' = draft + 1
          /\ text' = [text EXCEPT ![draft + 1] = IF c.typed THEN draft + 1 ELSE c.text]
          /\ author' = [author EXCEPT ![draft + 1] = p]
     ELSE UNCHANGED <<draft, text, author>>
Serve(p, c) == IF Accepts(p, c) THEN Handle(p, c) ELSE UNCHANGED server

Failed(c) == [NoCall EXCEPT !.do = c.do, !.at = "failed"]
Outcome(p, c) ==
  IF Accepts(p, c)
  THEN [NoCall EXCEPT !.do = c.do, !.at = "done",
                      !.draft = IF c.do = "save" THEN draft + 1 ELSE c.draft]
  ELSE Failed(c)

ServeMain(p) ==
  /\ main[p].at = "sent"
  /\ Serve(p, main[p])
  /\ main' = [main EXCEPT ![p] = Outcome(p, main[p])]
  /\ UNCHANGED <<page, side, saves, opens>>
ServeSide(p) ==
  /\ side[p].at = "sent"
  /\ Serve(p, side[p])
  /\ side' = [side EXCEPT ![p] = Outcome(p, side[p])]
  /\ UNCHANGED <<page, main, saves, opens>>

\* The call or its answer is lost.
LoseMain(p) ==
  /\ main[p].at \in {"sent", "done"}
  /\ main' = [main EXCEPT ![p] = Failed(main[p])]
  /\ UNCHANGED <<server, page, side, saves, opens>>
LoseSide(p) ==
  /\ side[p].at \in {"sent", "done"}
  /\ side' = [side EXCEPT ![p] = Failed(side[p])]
  /\ UNCHANGED <<server, page, main, saves, opens>>

\* After its save, "Submit for review" goes on; every other call is over, and
\* the page asks for the request anew.
Following_Regardless(c) == IF c.do = "save" THEN [c EXCEPT !.do = "submit", !.at = "sent"] ELSE NoCall
Following(c) ==
  IF c.do = "save" /\ c.at = "done" THEN [c EXCEPT !.do = "submit", !.at = "sent"] ELSE NoCall

Shown(p, c) == IF c.do = "save" /\ c.at = "done" THEN c.draft ELSE page[p].shown

AnswerMain(p) ==
  /\ main[p].at \in {"done", "failed"}
  /\ main' = [main EXCEPT ![p] = Following(main[p])]
  /\ page' = [page EXCEPT
       ![p].shown = Shown(p, main[p]),
       ![p].stale = @ \/ (main[p].at = "done" /\ main'[p] = NoCall),
       ![p].busy = @ /\ main'[p] # NoCall]
  /\ UNCHANGED <<server, side, saves, opens>>
AnswerSide(p) ==
  /\ side[p].at \in {"done", "failed"}
  /\ side' = [side EXCEPT ![p] = NoCall]
  /\ page' = [page EXCEPT ![p].shown = Shown(p, side[p]), ![p].busy = FALSE]
  /\ UNCHANGED <<server, main, saves, opens>>

\* router.refresh: the request of now; the form and the draft stay.
Refresh(p) ==
  /\ page[p].stale
  /\ page' = [page EXCEPT ![p].status = status, ![p].stale = FALSE]
  /\ UNCHANGED <<server, calls, opens>>

Network(p) ==
  \/ ServeLoad(p) \/ AnswerLoad(p) \/ FailLoad(p) \/ ServeMain(p) \/ ServeSide(p)
  \/ LoseMain(p) \/ LoseSide(p) \/ AnswerMain(p) \/ AnswerSide(p) \/ Refresh(p)
User(p) ==
  \/ Open(p) \/ Retry(p) \/ Type(p) \/ Save(p)
  \/ sendForReview(p) \/ doApprove(p) \/ doRequestChanges(p)

Next == \E p \in Pages : Network(p) \/ User(p)

Spec == Init /\ [][Next]_vars

-----------------------------------------------------------------------------
\* Nothing goes to review by a page whose form was not saved first, whatever
\* fails or is refused on the way (sendForReview).
SubmittedWasSaved ==
  [][status # "review" /\ status' = "review" =>
       \E p \in Pages : /\ main[p].do = "submit"
                        /\ main[p].draft \in 1..draft /\ author[main[p].draft] = p]_vars

\* In a page that was opened for editing and has loaded its draft before its
\* officer acts, the form holds the draft that the page names, unless it was
\* typed into; whatever others save meanwhile (loadNotam, saveDraftData).
OpenedFormIsDraft == \A p \in Pages :
  page[p].fills /\ ~ page[p].typed => page[p].text = text[page[p].shown]

\* A form that can be edited is not "stale data ..., or the initial mount
\* defaults": it holds the draft, or what its officer typed (loadNotam).
FormIsDraft == \A p \in Pages :
  Editable(p) /\ ~ page[p].typed => page[p].text = text[page[p].shown]

\* "before the officer types anything" (defaultsFromRequest): the form is not
\* filled in over what was typed.
TypedIsKept ==
  [][\A p \in Pages : page[p].typed => page'[p].typed \/ opens' # opens]_vars

\* "Verify that the drafted ICAO NOTAM faithfully represents the originator's
\* request before approving": what is approved is the draft the page shows.
ApprovedWasShown ==
  [][status # "approved" /\ status' = "approved" =>
       \E p \in Pages : /\ main[p].do = "approve"
                        /\ page[p].shown # 0 => text[page[p].shown] = text[draft]]_vars
=============================================================================
