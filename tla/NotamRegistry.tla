---------------------------- MODULE NotamRegistry ----------------------------
(***************************************************************************)
(* The registry of published NOTAMs: what the API and the screens over it  *)
(* say of each one, in force or not and why, worked out on every request   *)
(* from the rows, the NOTAMR and NOTAMC that refer to them and the time.   *)
(* Two references to one NOTAM, or to itself, are not refused when a draft *)
(* is saved, and may be published in any order.                            *)
(***************************************************************************)
EXTENDS Integers, Sequences, SequencesExt

CONSTANTS
  Notams,
  Rows,      \* the contents that each NOTAM may have been approved with
  Soon,      \* the 48 hours before item C
  MaxNow     \* a bound on time

None == "none"
Never == -1   \* no time: a row without item C, a NOTAM not published

TimesAssumption == Soon \in Nat /\ MaxNow \in Nat

\* create_draft refuses an estimated end that is not there.
RowsAssumption ==
  /\ None \notin Notams
  /\ \A n \in Notams : \A r \in Rows[n] :
       /\ r.until \in Nat \cup {Never}
       /\ r.qualifier = "EST" => r.until # Never

VARIABLES
  now,
  row,        \* the contents: kind, ref, place (item A), until (item C), qualifier
  published,  \* the NOTAMs published, in the order of published_at
  at          \* published_at of each

vars == <<now, row, published, at>>

Lifecycles == {"REPLACED", "CANCELLED", "CANCELLATION_NOTICE", "PUBLISHING", "PERM", "EST_EXPIRED",
               "EST_EXPIRING_SOON", "EST_ACTIVE", "EXPIRED", "EXPIRING_SOON", "ACTIVE"}

Contents ==
  {c \in [Notams -> UNION {Rows[n] : n \in Notams}] : \A n \in Notams : c[n] \in Rows[n]}
InitWith(contents) ==
  /\ now = 0
  /\ row \in contents
  /\ published = <<>>
  /\ at = [n \in Notams |-> Never]
Init == InitWith(Contents)

\* The stamp that completion or the override sets.
Publish(n) ==
  /\ at[n] = Never
  /\ published' = Append(published, n)
  /\ at' = [at EXCEPT ![n] = now]
  /\ UNCHANGED <<now, row>>

Tick == now < MaxNow /\ now' = now + 1 /\ UNCHANGED <<row, published, at>>

Next == Tick \/ \E n \in Notams : Publish(n)

Spec == Init /\ [][Next]_vars

-----------------------------------------------------------------------------
\* list_notams: those of the place asked for only, in descending order of
\* published_at.  A NOTAM is named by its place in the order of publication.
Listed(place) == {i \in DOMAIN published : place \in {None, row[published[i]].place}}
Before_Ascending(i, j) == i < j
Before(i, j) == i > j

\* replacing_map: one pass over the list, in which a later entry replaces an
\* earlier one.
Supersedes_Revived(place, n) == {i \in Listed(place) :
  /\ row[published[i]].ref = n
  /\ \A l \in Listed(place) : row[published[l]].ref # published[i]}
Supersedes(place, n) == {i \in Listed(place) :
  row[published[i]].ref = n /\ row[published[i]].kind \in {"NOTAMR", "NOTAMC"}}
LastOf(found) == CHOOSE i \in found : \A j \in found \ {i} : Before(j, i)
Superseding(place, n) ==
  LET found == Supersedes(place, n) IN IF found = {} THEN None ELSE published[LastOf(found)]

\* _build_notam_read; an estimated end is there, create_draft refuses one without.
Left(n) == row[n].until - now
Validity(n) ==
  CASE row[n].qualifier = "PERM" -> "PERM"
    [] row[n].qualifier = "EST" ->
         IF Left(n) < 0 THEN "EST_EXPIRED" ELSE IF Left(n) < Soon THEN "EST_EXPIRING_SOON" ELSE "EST_ACTIVE"
    [] row[n].qualifier \notin {"PERM", "EST"} /\ row[n].until = Never -> "ACTIVE"
    [] row[n].qualifier \notin {"PERM", "EST"} /\ row[n].until # Never ->
         IF Left(n) < 0 THEN "EXPIRED" ELSE IF Left(n) < Soon THEN "EXPIRING_SOON" ELSE "ACTIVE"
Lifecycle(place, n) ==
  LET by == Superseding(place, n) IN
  CASE by # None -> IF row[by].kind = "NOTAMC" THEN "CANCELLED" ELSE "REPLACED"
    [] by = None /\ row[n].kind = "NOTAMC" -> "CANCELLATION_NOTICE"
    [] by = None /\ row[n].kind # "NOTAMC" -> IF at[n] = Never THEN "PUBLISHING" ELSE Validity(n)
InForce == {"PUBLISHING", "PERM", "EST_EXPIRING_SOON", "EST_ACTIVE", "EXPIRING_SOON", "ACTIVE"}
IsActive(place, n) == Lifecycle(place, n) \in InForce

\* The status filters of list_notams.
Wanted_ByPrefix(status) ==
  CASE status = "ACTIVE" -> InForce
    [] status = "EXPIRING" -> {"EXPIRING_SOON", "EST_EXPIRING_SOON", "EST_EXPIRED"}
    [] status = "EST" -> {"EST_EXPIRED", "EST_EXPIRING_SOON", "EST_ACTIVE"}
    [] status = "PERM" -> {"PERM"}
    [] status = "REPLACED_CANCELLED" -> {"REPLACED", "CANCELLED", "CANCELLATION_NOTICE"}
Wanted(status) ==
  CASE status = "ACTIVE" -> InForce
    [] status = "EXPIRING" -> {"EXPIRING_SOON", "EST_EXPIRING_SOON"}
    [] status = "EST" -> {"EST_EXPIRED", "EST_EXPIRING_SOON", "EST_ACTIVE"}
    [] status = "PERM" -> {"PERM"}
    [] status = "REPLACED_CANCELLED" -> {"REPLACED", "CANCELLED", "CANCELLATION_NOTICE"}
Wants(status, n) == Lifecycle(None, n) \in Wanted(status)

\* The filters of the page, over the list it was given.
Shown(filter, n) ==
  CASE filter = "PERM" -> row[n].qualifier = "PERM"
    [] filter = "EST_REVIEW" -> Lifecycle(None, n) \in {"EST_EXPIRING_SOON", "EST_EXPIRED"}
    [] filter \in {"ACTIVE", "EXPIRING", "EST", "REPLACED_CANCELLED"} -> Wants(filter, n)

\* dashboard_summary.
EstimatedDue == {n \in Notams : row[n].qualifier = "EST" /\ at[n] # Never}

-----------------------------------------------------------------------------
TypeOK ==
  /\ now \in 0 .. MaxNow
  /\ IsInjective(published) /\ ToSet(published) = {n \in Notams : at[n] # Never}
  /\ \A n \in ToSet(published) : at[n] \in 0 .. now /\ Lifecycle(None, n) \in Lifecycles \ {"PUBLISHING"}

\* A NOTAM that went out of force, by time or by another one, is never shown
\* in force again, whatever is published later.
NeverBackInForce ==
  [][\A n \in ToSet(published) : ~IsActive(None, n) => ~IsActive(None, n)']_vars

\* The NOTAM that is shown to have replaced or cancelled another one is the
\* first that did, and stays so when more are published.
FirstSupersederStays ==
  [][\A n \in Notams : Superseding(None, n)' \in {Superseding(None, n), None}
                          \/ Superseding(None, n) = None]_vars

\* Nothing is shown to be superseded before the NOTAM that does it is out.
OnlyPublishedSupersedes ==
  \A n \in Notams : Superseding(None, n) # None => at[Superseding(None, n)] # Never

\* What is about to expire is in force, and what is not in force is replaced or
\* cancelled, or its time is over; the page shows every PERM NOTAM that the API
\* lists, and asks for the review only of NOTAMs that nothing has superseded and
\* that are at most 48 hours from their end.
FiltersAgree ==
  \A n \in ToSet(published) :
    /\ Wants("EXPIRING", n) => Wants("ACTIVE", n)
    /\ ~Wants("ACTIVE", n) /\ ~Wants("REPLACED_CANCELLED", n) =>
         row[n].until # Never /\ row[n].until < now
    /\ Wants("PERM", n) => Shown("PERM", n)
    /\ Shown("EST_REVIEW", n) => Superseding(None, n) = None /\ Left(n) < Soon

\* Whoever asks for one aerodrome sees what the whole list says: a NOTAM that
\* is "Currently active in flight briefing bulletins"
\* (published-notam-registry.tsx) is not one that was replaced.
PlaceIsView ==
  \A n \in ToSet(published) : IsActive(row[n].place, n) => IsActive(None, n)

\* The "estimated NOTAM" that "require action" (page.tsx) on the dashboard are
\* those that nothing has replaced or cancelled.
DueIsOpen == \A n \in EstimatedDue : Superseding(None, n) = None
=============================================================================
