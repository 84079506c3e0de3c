--------------------------- MODULE RecoveryProofs ---------------------------
(***************************************************************************)
(* The safety properties of BootstrapIssues, for every set of titles and   *)
(* all bounds.  What a run believes is never wrong, only incomplete: the   *)
(* number it has for a title is one of that title (KnownIsRight).  As long *)
(* as the listing shows everything it is complete too for the titles still *)
(* to come (UnknownIsAbsent), and while nothing has failed the work up to  *)
(* now is done (MadeSoFar, LinkedSoFar).                                   *)
(*                                                                         *)
(* The safety properties of LiveUpdates, for every number of logins,       *)
(* topics and breaks. They are inductive with the types and the fact that  *)
(* the closures of later logins are unused (LiveInv).                      *)
(***************************************************************************)
EXTENDS BootstrapIssues, LiveUpdates, WellFoundedInduction, TLAPS

\* A number that the run has is that of an issue with the title.
KnownIsRight == \A t \in Titles : existing[t] # 0 =>
                  existing[t] \in DOMAIN issues /\ issues[existing[t]] = t

\* A title still to come that the run has no number for has no issue.
UnknownIsAbsent ==
  pc = "creating" /\ Len(issues) =< Limit =>
    \A t \in todo : existing[t] = 0 => \A n \in DOMAIN issues : issues[n] # t

\* Without a failure, the titles that are done with have numbers.
MadeSoFar ==
  /\ pc = "creating" /\ ~ failed => \A t \in Titles \ todo : existing[t] # 0
  /\ pc \in {"linking", "posting"} /\ ~ failed => \A t \in Titles : existing[t] # 0

\* Without a failure, the sub-issues that are done with have their links.
LinkedSoFar ==
  pc \in {"linking", "posting"} /\ ~ failed => \A s \in Subs \ todo : Link(s) \in links

IInv == /\ TypeOK /\ KnownIsRight /\ UnknownIsAbsent /\ MadeSoFar /\ LinkedSoFar
        /\ OneIssuePerTitle /\ CleanExitIsComplete

-----------------------------------------------------------------------------
(* What an action does to GitHub.                                          *)

\* The issues stay, or one of this title is appended.
Grows(t) == issues' = issues \/ issues' = Append(issues, t)

(* Issues keep their numbers and titles (Added, and everything else). *)
LEMMA IssuesStay ==
  ASSUME TypeOK, NEW t \in Titles \cup {Other}, Grows(t)
  PROVE  /\ issues' \in Seq(Titles \cup {Other})
         /\ Len(issues) \in Nat /\ Len(issues') \in Nat
         /\ DOMAIN issues = 1..Len(issues) /\ DOMAIN issues' = 1..Len(issues')
         /\ Len(issues) =< Len(issues')
         /\ \A n \in DOMAIN issues : n \in DOMAIN issues' /\ issues'[n] = issues[n]
         /\ \A n \in DOMAIN issues' : n \in DOMAIN issues \/ issues'[n] = t
<1> issues \in Seq(Titles \cup {Other})
  BY DEF TypeOK
<1>1. CASE issues' = issues
  BY <1>1
<1>2. CASE issues' = Append(issues, t)
  BY <1>2
<1> QED
  BY <1>1, <1>2 DEF Grows

(* A title that the listing shows has an oldest issue there (fetch_existing_issues). *)
LEMMA OldestIsListed ==
  ASSUME TypeOK, NEW t \in Titles, Listed(t) # {}
  PROVE  Oldest(t) \in DOMAIN issues /\ issues[Oldest(t)] = t /\ Oldest(t) \in Nat \ {0}
<1> DEFINE S == Listed(t)
<1>1. S \subseteq DOMAIN issues /\ DOMAIN issues = 1..Len(issues) /\ Len(issues) \in Nat
  BY DEF TypeOK, Listed
<1>2. S \in SUBSET Nat
  BY <1>1
<1>3. \E n \in S : \A m \in S : n =< m
  <2> DEFINE R == OpToRel(<, Nat)
  <2>1. S # {}
    OBVIOUS
  <2>2. \A x, y \in Nat : y < x => <<y, x>> \in R
    BY DEF OpToRel
  <2>3. IsWellFoundedOn(R, Nat)
    BY NatLessThanWellFounded
  <2> HIDE DEF S, R
  <2>4. PICK x \in S : \A y \in S : ~ (<<y, x>> \in R)
    BY <1>2, <2>1, <2>3, WFMin
  <2>5. \A y \in S : ~ (y < x)
    BY <1>2, <2>2, <2>4, Zenon
  <2>6. \A y \in S : x =< y
    BY <1>2, <2>5
  <2> QED
    BY <2>6
<1>4. Oldest(t) \in S
  BY <1>3 DEF Oldest
<1> QED
  BY <1>1, <1>4 DEF Listed

(* As long as the listing reaches back to the first issue, it shows them all. *)
LEMMA ListedIsAll ==
  ASSUME TypeOK, Len(issues) =< Limit, NEW t \in Titles, NEW n \in DOMAIN issues, issues[n] = t
  PROVE  Listed(t) # {}
<1> Len(issues) \in Nat /\ DOMAIN issues = 1..Len(issues) /\ Limit \in Nat
  BY BoundsAssumption DEF TypeOK
<1> n + Limit > Len(issues)
  OBVIOUS
<1> QED
  BY DEF Listed

(* What is complete stays complete. *)
LEMMA CompleteStays ==
  ASSUME TypeOK, NEW t \in Titles \cup {Other}, Grows(t), links \subseteq links', Complete
  PROVE  Complete'
<1> \A n \in DOMAIN issues : n \in DOMAIN issues' /\ issues'[n] = issues[n]
  BY IssuesStay
<1>1. ASSUME NEW e \in Epics PROVE \E n \in DOMAIN issues' : issues'[n] = e
  BY DEF Complete
<1>2. ASSUME NEW s \in Subs
      PROVE  \E l \in links' : /\ l[1] \in DOMAIN issues' /\ issues'[l[1]] = EpicOf[s]
                               /\ l[2] \in DOMAIN issues' /\ issues'[l[2]] = s
  <2> PICK l \in links : /\ l[1] \in DOMAIN issues /\ issues[l[1]] = EpicOf[s]
                         /\ l[2] \in DOMAIN issues /\ issues[l[2]] = s
    BY DEF Complete
  <2> QED
    BY SMT
<1> QED
  BY <1>1, <1>2 DEF Complete

-----------------------------------------------------------------------------
(* The types.                                                              *)

LEMMA InitTypeOK == Init => TypeOK
<1> SUFFICES ASSUME Init PROVE TypeOK
  OBVIOUS
<1>1. existing \in [Titles -> Nat]
  BY DEF Init, Unknown
<1> QED
  <2>1. <<>> \in Seq(Titles \cup {Other}) /\ {} \subseteq Nat \X Nat
    OBVIOUS
  <2> QED
    BY <1>1, <2>1 DEF Init, TypeOK

\* The actions, one by one.
LEMMA ByAction ==
  ASSUME [Next]_vars
  PROVE  \/ ForeignIssue \/ Start \/ Die \/ BeginLinking \/ PostLink \/ PostRefused \/ Finish
         \/ PostFails \/ PostAndDie
         \/ \E t \in Titles : SkipExisting(t) \/ CreateIssue(t) \/ CreateFails(t) \/ CreateAndDie(t)
         \/ \E s \in Subs : NoParent(s) \/ SkipLinked(s) \/ FetchId(s) \/ FetchIdFails(s)
         \/ UNCHANGED vars
BY DEF Next, Progress

(* No action takes anything from GitHub, and none but Start and CreateIssue changes
   what the run knows. *)
LEMMA OnlyAdds ==
  ASSUME TypeOK, [Next]_vars
  PROVE  /\ links \subseteq links'
         /\ \E t \in Titles \cup {Other} : Grows(t)
         /\ existing' = existing \/ Start \/ \E t \in Titles : CreateIssue(t)
<1> USE DEF Grows, github
<1>1. CASE ForeignIssue
  BY <1>1 DEF ForeignIssue
<1>2. CASE Start
  BY <1>2 DEF Start
<1>3. CASE Die
  BY <1>3 DEF Die, Ends
<1>4. CASE BeginLinking \/ Finish
  BY <1>4 DEF BeginLinking, Finish
<1>5. CASE PostLink \/ PostFails
  BY <1>5 DEF PostLink, PostFails, Posted, Passed
<1>6. CASE PostRefused
  BY <1>6 DEF PostRefused, Passed
<1>7. CASE PostAndDie
  BY <1>7 DEF PostAndDie, Posted, Ends
<1>8. ASSUME NEW t \in Titles, SkipExisting(t) \/ CreateIssue(t) \/ CreateFails(t) \/ CreateAndDie(t)
      PROVE  /\ links \subseteq links' /\ Grows(t)
             /\ existing' = existing \/ CreateIssue(t)
  BY <1>8 DEF SkipExisting, CreateIssue, CreateFails, CreateAndDie, Added, Ends
<1>9. ASSUME NEW s \in Subs, NoParent(s) \/ SkipLinked(s) \/ FetchId(s) \/ FetchIdFails(s)
      PROVE  links \subseteq links' /\ issues' = issues /\ existing' = existing
  BY <1>9 DEF NoParent, SkipLinked, FetchId, FetchIdFails, Passed
<1>10. CASE UNCHANGED vars
  BY <1>10 DEF vars
<1> QED
  BY <1>1, <1>2, <1>3, <1>4, <1>5, <1>6, <1>7, <1>8, <1>9, <1>10, ByAction

LEMMA NextTypeOK == TypeOK /\ [Next]_vars => TypeOK'
<1> SUFFICES ASSUME TypeOK, [Next]_vars PROVE TypeOK'
  OBVIOUS
<1>0. issues' \in Seq(Titles \cup {Other})
  BY OnlyAdds, IssuesStay
<1> Titles = Epics \cup Subs /\ EpicOf \in [Subs -> Epics] /\ Len(issues) \in Nat
  BY TitlesAssumption DEF Titles, TypeOK
<1> USE DEF TypeOK, github
<1>1. CASE ForeignIssue
  BY <1>0, <1>1 DEF ForeignIssue
<1>2. CASE Start
  <2>1. \A t \in Titles : Listed(t) # {} => Oldest(t) \in Nat
    BY OldestIsListed
  <2> QED
    BY <1>0, <1>2, <2>1 DEF Start
<1>3. CASE Die
  BY <1>0, <1>3 DEF Die, Ends
<1>4. CASE BeginLinking \/ Finish
  BY <1>0, <1>4 DEF BeginLinking, Finish
<1>5. CASE PostLink \/ PostFails \/ PostRefused \/ PostAndDie
  <2>1. pc = "posting" /\ posting \in Subs
    BY <1>5 DEF PostLink, PostFails, PostRefused, PostAndDie
  <2>2. Link(posting) \in Nat \X Nat
    BY <2>1 DEF Link
  <2>3. links' \subseteq Nat \X Nat
    BY <1>5, <2>2 DEF PostLink, PostFails, PostRefused, PostAndDie, Posted
  <2>4. CASE PostLink \/ PostRefused
    BY <1>0, <2>3, <2>4 DEF PostLink, PostRefused, Posted, Passed
  <2>5. CASE PostFails
    BY <1>0, <2>3, <2>5 DEF PostFails, Posted, Passed
  <2>6. CASE PostAndDie
    BY <1>0, <2>3, <2>6 DEF PostAndDie, Posted, Ends
  <2> QED
    BY <1>5, <2>4, <2>5, <2>6
<1>6. ASSUME NEW t \in Titles, SkipExisting(t) \/ CreateIssue(t) \/ CreateFails(t) \/ CreateAndDie(t)
      PROVE  TypeOK'
  <2>1. CASE SkipExisting(t)
    BY <1>0, <2>1 DEF SkipExisting, Turn
  <2>2. CASE CreateIssue(t)
    BY <1>0, <2>2 DEF CreateIssue, Turn, Added
  <2>3. CASE CreateFails(t)
    BY <1>0, <2>3 DEF CreateFails, Turn, Added
  <2>4. CASE CreateAndDie(t)
    BY <1>0, <2>4 DEF CreateAndDie, Turn, Added, Ends
  <2> QED
    BY <1>6, <2>1, <2>2, <2>3, <2>4
<1>7. ASSUME NEW s \in Subs, NoParent(s) \/ SkipLinked(s) \/ FetchId(s) \/ FetchIdFails(s)
      PROVE  TypeOK'
  <2>1. CASE NoParent(s) \/ SkipLinked(s)
    BY <1>0, <2>1 DEF NoParent, SkipLinked, Passed
  <2>2. CASE FetchId(s)
    BY <1>0, <2>2 DEF FetchId
  <2>3. CASE FetchIdFails(s)
    BY <1>0, <2>3 DEF FetchIdFails, Passed
  <2> QED
    BY <1>7, <2>1, <2>2, <2>3
<1>8. CASE UNCHANGED vars
  BY <1>8 DEF vars
<1> QED
  BY <1>1, <1>2, <1>3, <1>4, <1>5, <1>6, <1>7, <1>8, ByAction

-----------------------------------------------------------------------------
(* The parts of the invariant.                                             *)

LEMMA NextKnownIsRight == TypeOK /\ KnownIsRight /\ [Next]_vars => KnownIsRight'
<1> SUFFICES ASSUME TypeOK, KnownIsRight, [Next]_vars,
                    NEW t \in Titles, existing'[t] # 0
             PROVE  existing'[t] \in DOMAIN issues' /\ issues'[existing'[t]] = t
  BY DEF KnownIsRight
<1>1. \A n \in DOMAIN issues : n \in DOMAIN issues' /\ issues'[n] = issues[n]
  BY OnlyAdds, IssuesStay
<1>2. CASE existing' = existing
  BY <1>1, <1>2 DEF KnownIsRight
<1>3. CASE Start
  <2>1. existing'[t] = Oldest(t) /\ Listed(t) # {}
    BY <1>3 DEF Start
  <2> QED
    BY <1>1, <2>1, OldestIsListed
<1>4. ASSUME NEW u \in Titles, CreateIssue(u)
      PROVE  existing'[t] \in DOMAIN issues' /\ issues'[existing'[t]] = t
  <2>1. CASE u = t
    <3>1. issues' = Append(issues, t) /\ issues \in Seq(Titles \cup {Other})
      BY <1>4, <2>1 DEF CreateIssue, Added, TypeOK
    <3>2. existing'[t] = Len(issues) + 1
      BY <1>4, <2>1 DEF CreateIssue, TypeOK
    <3> QED
      BY <3>1, <3>2
  <2>2. CASE u # t
    <3>1. existing'[t] = existing[t]
      BY <1>4, <2>2 DEF CreateIssue, TypeOK
    <3> QED
      BY <1>1, <3>1 DEF KnownIsRight
  <2> QED
    BY <2>1, <2>2
<1> QED
  BY <1>2, <1>3, <1>4, OnlyAdds

LEMMA NextUnknownIsAbsent == TypeOK /\ UnknownIsAbsent /\ [Next]_vars => UnknownIsAbsent'
<1> SUFFICES ASSUME TypeOK, UnknownIsAbsent, [Next]_vars, pc' = "creating", Len(issues') =< Limit,
                    NEW t \in todo', existing'[t] = 0, NEW n \in DOMAIN issues', issues'[n] = t
             PROVE  FALSE
  BY DEF UnknownIsAbsent
<1>0. TypeOK' /\ t \in Titles /\ Other \notin Titles /\ Limit \in Nat
  BY NextTypeOK, TitlesAssumption, BoundsAssumption DEF TypeOK
<1>1. Len(issues) =< Limit
  BY <1>0, OnlyAdds, IssuesStay
<1>2. ASSUME NEW u \in Titles \cup {Other}, Grows(u), u # t, pc = "creating", t \in todo,
             existing[t] = 0
      PROVE  FALSE
  <2>1. n \in DOMAIN issues /\ issues[n] = t
    BY <1>2, IssuesStay
  <2> QED
    BY <1>1, <1>2, <2>1 DEF UnknownIsAbsent
<1>3. CASE ForeignIssue
  BY <1>0, <1>2, <1>3 DEF ForeignIssue, Grows
<1>4. CASE Start
  <2>1. issues' = issues
    BY <1>4 DEF Start, github
  <2>2. Listed(t) # {}
    BY <1>0, <1>1, <2>1, ListedIsAll
  <2>3. existing'[t] = Oldest(t)
    BY <1>0, <1>4, <2>2 DEF Start
  <2> QED
    BY <1>0, <2>2, <2>3, OldestIsListed
<1>5. ASSUME NEW u \in Titles, SkipExisting(u) \/ CreateIssue(u) \/ CreateFails(u) \/ CreateAndDie(u)
      PROVE  FALSE
  <2>1. pc = "creating" /\ t \in todo /\ t # u /\ Grows(u)
    BY <1>5 DEF SkipExisting, CreateIssue, CreateFails, CreateAndDie, Turn, Added, Ends, Grows, github
  <2>2. existing[t] = 0
    BY <1>0, <1>5, <2>1 DEF SkipExisting, CreateIssue, CreateFails, CreateAndDie, Ends, TypeOK
  <2> QED
    BY <1>2, <2>1, <2>2
<1>6. CASE UNCHANGED vars
  BY <1>0, <1>2, <1>6 DEF vars, Grows
<1>7. CASE Die \/ BeginLinking \/ PostLink \/ PostRefused \/ Finish \/ PostFails \/ PostAndDie
  BY <1>7 DEF Die, BeginLinking, PostLink, PostRefused, Finish, PostFails, PostAndDie, Passed, Ends
<1>8. ASSUME NEW s \in Subs, NoParent(s) \/ SkipLinked(s) \/ FetchId(s) \/ FetchIdFails(s)
      PROVE  FALSE
  BY <1>8 DEF NoParent, SkipLinked, FetchId, FetchIdFails, Passed
<1> QED
  BY <1>3, <1>4, <1>5, <1>6, <1>7, <1>8, ByAction

LEMMA NextMadeSoFar == TypeOK /\ MadeSoFar /\ [Next]_vars => MadeSoFar'
<1> SUFFICES ASSUME TypeOK, MadeSoFar, [Next]_vars PROVE MadeSoFar'
  OBVIOUS
<1> USE DEF MadeSoFar
<1>1. CASE ForeignIssue \/ UNCHANGED vars
  BY <1>1 DEF ForeignIssue, vars
<1>2. CASE Start
  BY <1>2 DEF Start
<1>3. CASE Die \/ PostAndDie \/ Finish
  BY <1>3 DEF Die, PostAndDie, Finish, Ends
<1>4. CASE BeginLinking
  BY <1>4 DEF BeginLinking
<1>5. CASE PostLink \/ PostRefused \/ PostFails
  BY <1>5 DEF PostLink, PostRefused, PostFails, Passed
<1>6. ASSUME NEW t \in Titles, SkipExisting(t) \/ CreateIssue(t) \/ CreateFails(t) \/ CreateAndDie(t)
      PROVE  MadeSoFar'
  <2>1. CASE SkipExisting(t)
    BY <2>1 DEF SkipExisting, Turn
  <2>2. CASE CreateIssue(t)
    <3>1. Len(issues) + 1 # 0 /\ existing'[t] = Len(issues) + 1
      BY <2>2 DEF CreateIssue, TypeOK
    <3>2. \A u \in Titles \ {t} : existing'[u] = existing[u]
      BY <2>2 DEF CreateIssue, TypeOK
    <3> QED
      BY <2>2, <3>1, <3>2 DEF CreateIssue, Turn
  <2>3. CASE CreateFails(t) \/ CreateAndDie(t)
    BY <2>3 DEF CreateFails, CreateAndDie, Turn, Ends
  <2> QED
    BY <1>6, <2>1, <2>2, <2>3
<1>7. ASSUME NEW s \in Subs, NoParent(s) \/ SkipLinked(s) \/ FetchId(s) \/ FetchIdFails(s)
      PROVE  MadeSoFar'
  BY <1>7 DEF NoParent, SkipLinked, FetchId, FetchIdFails, Passed
<1> QED
  BY <1>1, <1>2, <1>3, <1>4, <1>5, <1>6, <1>7, ByAction

LEMMA NextLinkedSoFar == TypeOK /\ MadeSoFar /\ LinkedSoFar /\ [Next]_vars => LinkedSoFar'
<1> SUFFICES ASSUME TypeOK, MadeSoFar, LinkedSoFar, [Next]_vars PROVE LinkedSoFar'
  OBVIOUS
<1> USE DEF LinkedSoFar, Link
<1>1. CASE ForeignIssue \/ UNCHANGED vars
  BY <1>1 DEF ForeignIssue, vars
<1>2. CASE Start \/ Die \/ PostAndDie \/ Finish
  BY <1>2 DEF Start, Die, PostAndDie, Finish, Ends
<1>3. CASE BeginLinking
  <2>1. ~ failed' => \A s \in Subs : s \in todo'
    BY <1>3, TitlesAssumption DEF BeginLinking, MadeSoFar, Titles
  <2> QED
    BY <2>1
<1>4. CASE PostLink
  <2>1. links' = links \cup {Link(posting)}
    BY <1>4 DEF PostLink, Posted
  <2>2. pc = "posting" /\ (~ failed' => ~ failed)
        /\ todo' = todo \ {posting} /\ existing' = existing
    BY <1>4 DEF PostLink, Passed
  <2> QED
    BY <2>1, <2>2
<1>5. CASE PostRefused \/ PostFails
  BY <1>5 DEF PostRefused, PostFails, Passed
<1>6. ASSUME NEW t \in Titles, SkipExisting(t) \/ CreateIssue(t) \/ CreateFails(t) \/ CreateAndDie(t)
      PROVE  LinkedSoFar'
  BY <1>6 DEF SkipExisting, CreateIssue, CreateFails, CreateAndDie, Turn, Ends
<1>7. ASSUME NEW s \in Subs, NoParent(s) \/ SkipLinked(s) \/ FetchId(s) \/ FetchIdFails(s)
      PROVE  LinkedSoFar'
  <2>1. CASE NoParent(s) \/ FetchIdFails(s)
    BY <2>1 DEF NoParent, FetchIdFails, Passed
  <2>2. CASE SkipLinked(s)
    BY <2>2 DEF SkipLinked, Passed, github
  <2>3. CASE FetchId(s)
    BY <2>3 DEF FetchId, github
  <2> QED
    BY <1>7, <2>1, <2>2, <2>3
<1> QED
  BY <1>1, <1>2, <1>3, <1>4, <1>5, <1>6, <1>7, ByAction

LEMMA NextOneIssuePerTitle ==
  TypeOK /\ UnknownIsAbsent /\ OneIssuePerTitle /\ [Next]_vars => OneIssuePerTitle'
<1> SUFFICES ASSUME TypeOK, UnknownIsAbsent, OneIssuePerTitle, [Next]_vars,
                    Len(issues') =< Limit,
                    NEW m \in DOMAIN issues', NEW n \in DOMAIN issues',
                    issues'[m] = issues'[n], issues'[m] # Other
             PROVE  m = n
  BY DEF OneIssuePerTitle
<1>0. Limit \in Nat /\ issues \in Seq(Titles \cup {Other})
  BY BoundsAssumption DEF TypeOK
<1>1. Len(issues) =< Limit
  BY <1>0, OnlyAdds, IssuesStay
<1>2. CASE issues' = issues
  BY <1>1, <1>2 DEF OneIssuePerTitle
<1>3. CASE issues' = Append(issues, Other)
  <2>1. m \in DOMAIN issues /\ n \in DOMAIN issues /\ issues[m] = issues'[m] /\ issues[n] = issues'[n]
    BY <1>0, <1>3
  <2> QED
    BY <1>1, <2>1 DEF OneIssuePerTitle
<1>4. ASSUME NEW t \in Titles, Turn(t), existing[t] = 0, issues' = Append(issues, t)
      PROVE  m = n
  <2>1. \A k \in DOMAIN issues : issues[k] # t
    BY <1>1, <1>4 DEF Turn, UnknownIsAbsent
  <2>2. \A k \in DOMAIN issues' :
          (k \in DOMAIN issues /\ issues'[k] = issues[k]) \/ (k = Len(issues) + 1 /\ issues'[k] = t)
    <3>1. t \in Titles \cup {Other} /\ DOMAIN issues' = 1..(Len(issues) + 1)
      BY <1>0, <1>4
    <3>2. issues'[Len(issues) + 1] = t /\ \A k \in DOMAIN issues : issues'[k] = issues[k]
      BY <1>0, <1>4
    <3>3. DOMAIN issues = 1..Len(issues) /\ Len(issues) \in Nat
      BY <1>0
    <3>4. ASSUME NEW k \in DOMAIN issues'
          PROVE  (k \in DOMAIN issues /\ issues'[k] = issues[k]) \/ (k = Len(issues) + 1 /\ issues'[k] = t)
      <4>1. k \in DOMAIN issues \/ k = Len(issues) + 1
        BY <3>1, <3>3
      <4> QED
        BY <3>2, <4>1, Zenon
    <3> QED
      BY <3>4
  <2> QED
    BY <1>1, <2>1, <2>2 DEF OneIssuePerTitle
<1>5. \/ issues' = issues \/ issues' = Append(issues, Other)
      \/ \E t \in Titles : Turn(t) /\ existing[t] = 0 /\ issues' = Append(issues, t)
  <2> USE DEF github, Ends, Passed
  <2>1. CASE ForeignIssue \/ Start \/ Die \/ BeginLinking \/ Finish \/ UNCHANGED vars
    BY <2>1 DEF ForeignIssue, Start, Die, BeginLinking, Finish, vars
  <2>2. CASE PostLink \/ PostRefused \/ PostFails \/ PostAndDie
    BY <2>2 DEF PostLink, PostRefused, PostFails, PostAndDie, Posted
  <2>3. ASSUME NEW t \in Titles, SkipExisting(t) \/ CreateIssue(t) \/ CreateFails(t) \/ CreateAndDie(t)
        PROVE  issues' = issues \/ (Turn(t) /\ existing[t] = 0 /\ issues' = Append(issues, t))
    BY <2>3 DEF SkipExisting, CreateIssue, CreateFails, CreateAndDie, Added
  <2>4. ASSUME NEW s \in Subs, NoParent(s) \/ SkipLinked(s) \/ FetchId(s) \/ FetchIdFails(s)
        PROVE  issues' = issues
    BY <2>4 DEF NoParent, SkipLinked, FetchId, FetchIdFails
  <2> QED
    BY <2>1, <2>2, <2>3, <2>4, ByAction
<1> QED
  BY <1>2, <1>3, <1>4, <1>5

LEMMA NextCleanExitIsComplete ==
  IInv /\ [Next]_vars => CleanExitIsComplete'
<1> SUFFICES ASSUME IInv, [Next]_vars, pc' = "done" PROVE Complete'
  BY DEF CleanExitIsComplete
<1> USE DEF IInv
<1>1. pc = "done" \/ Finish
  <2>1. CASE ForeignIssue \/ UNCHANGED vars
    BY <2>1 DEF ForeignIssue, vars
  <2>2. CASE Start \/ Die \/ BeginLinking \/ PostLink \/ PostRefused \/ PostFails \/ PostAndDie
    BY <2>2 DEF Start, Die, BeginLinking, PostLink, PostRefused, PostFails, PostAndDie, Ends, Passed
  <2>3. ASSUME NEW t \in Titles, SkipExisting(t) \/ CreateIssue(t) \/ CreateFails(t) \/ CreateAndDie(t)
        PROVE  FALSE
    BY <2>3 DEF SkipExisting, CreateIssue, CreateFails, CreateAndDie, Turn, Ends
  <2>4. ASSUME NEW s \in Subs, NoParent(s) \/ SkipLinked(s) \/ FetchId(s) \/ FetchIdFails(s)
        PROVE  FALSE
    BY <2>4 DEF NoParent, SkipLinked, FetchId, FetchIdFails, Passed
  <2> QED
    BY <2>1, <2>2, <2>3, <2>4, ByAction
<1>2. CASE pc = "done"
  BY <1>2, OnlyAdds, CompleteStays DEF CleanExitIsComplete
<1>3. CASE Finish
  <2>1. pc = "linking" /\ todo = {} /\ ~ failed
    BY <1>3 DEF Finish
  <2>2. \A t \in Titles : existing[t] \in DOMAIN issues /\ issues[existing[t]] = t
    BY <2>1 DEF MadeSoFar, KnownIsRight
  <2>3. \A s \in Subs : Link(s) \in links /\ s \in Titles /\ EpicOf[s] \in Titles
    BY <2>1, TitlesAssumption DEF LinkedSoFar, Titles
  <2>4. \A e \in Epics : \E n \in DOMAIN issues : issues[n] = e
    BY <2>2 DEF Titles
  <2>5. ASSUME NEW s \in Subs
        PROVE  \E l \in links : /\ l[1] \in DOMAIN issues /\ issues[l[1]] = EpicOf[s]
                               /\ l[2] \in DOMAIN issues /\ issues[l[2]] = s
    <3>1. Link(s)[1] = existing[EpicOf[s]] /\ Link(s)[2] = existing[s]
      BY DEF Link
    <3> QED
      BY <2>2, <2>3, <3>1
  <2>6. Complete
    BY <2>4, <2>5 DEF Complete
  <2> QED
    BY <2>6, OnlyAdds, CompleteStays
<1> QED
  BY <1>1, <1>2, <1>3

-----------------------------------------------------------------------------
(* The theorems.                                                           *)

LEMMA InitIInv == Init => IInv
<1> SUFFICES ASSUME Init PROVE IInv
  OBVIOUS
<1>1. TypeOK
  BY InitTypeOK
<1>2. KnownIsRight
  BY DEF Init, Unknown, KnownIsRight
<1>3. OneIssuePerTitle
  BY DEF Init, OneIssuePerTitle
<1>4. UnknownIsAbsent /\ MadeSoFar /\ LinkedSoFar /\ CleanExitIsComplete
  BY DEF Init, UnknownIsAbsent, MadeSoFar, LinkedSoFar, CleanExitIsComplete
<1> QED
  BY <1>1, <1>2, <1>3, <1>4 DEF IInv

LEMMA NextIInv == IInv /\ [Next]_vars => IInv'
BY NextTypeOK, NextKnownIsRight, NextUnknownIsAbsent, NextMadeSoFar, NextLinkedSoFar,
   NextOneIssuePerTitle, NextCleanExitIsComplete DEF IInv

(* Every reachable state satisfies the inductive invariant, whatever fails and however
   often create_issues.py is started. *)
THEOREM Invariance == Spec => []IInv
BY InitIInv, NextIInv, PTL DEF Spec

(* What a run believes of GitHub, and how far it has come, is of the kinds that
   create_issues.py gives them. *)
THEOREM TypeCorrect == Spec => []TypeOK
<1>1. IInv => TypeOK
  BY DEF IInv
<1> QED
  BY <1>1, Invariance, PTL

(* However often create_issues.py fails and is started again, no title gets a second
   issue while the listing shows every issue. *)
THEOREM NoDuplicates == Spec => []OneIssuePerTitle
<1>1. IInv => OneIssuePerTitle
  BY DEF IInv
<1> QED
  BY <1>1, Invariance, PTL

(* Exit code 0 means that every issue and every link of issues.yaml is on GitHub,
   whatever happened in earlier runs, and stays so until the script starts again. *)
THEOREM SuccessIsComplete == Spec => []CleanExitIsComplete
<1>1. IInv => CleanExitIsComplete
  BY DEF IInv
<1> QED
  BY <1>1, Invariance, PTL
-----------------------------------------------------------------------------
(* LiveUpdates.                                                            *)

ClosureState ==
  [at : {"unused", "connecting", "open", "closing", "waiting", "ended"},
   session : {"none", "accepted", "subscribed"}, wire : Seq(Event), told : SUBSET Topics]

\* A session lives on a socket, and only a subscribed one has events.
Consistent(c) ==
  /\ c.session # "none" => c.at \in {"connecting", "open"}
  /\ c.session # "subscribed" => c.told = {} /\ c.wire = <<>>

\* The closures of logins to come have not begun.
LaterAreUnused == \A u \in Logins : u > logins => closure[u].at = "unused"

LiveInv == LiveTypeOK /\ LaterAreUnused /\ ConnectedIsOpen /\ LastWordIsCurrent

(* What every action has to show of the closures. *)
LEMMA TypesKept ==
  ASSUME LiveTypeOK, closure' \in [Logins -> ClosureState], \A u \in Logins : Consistent(closure'[u]),
         UNCHANGED <<version, hook, logins, expired, view, breaks, source>>, connected' \in BOOLEAN
  PROVE  LiveTypeOK'
BY DEF LiveTypeOK, ClosureState, Consistent

LEMMA AloneState ==
  ASSUME NEW at \in {"unused", "connecting", "open", "closing", "waiting", "ended"}
  PROVE  Alone(at) \in ClosureState /\ Consistent(Alone(at)) /\ Alone(at).told = {}
         /\ Alone(at).at = at
BY DEF Alone, ClosureState, Consistent

(* The last word is kept by a step that publishes and delivers nothing: a closure has
   the events it had, or has been told nothing. *)
LEMMA LastWordKept ==
  ASSUME LastWordIsCurrent, UNCHANGED <<version, view, source>>,
         \A u \in Logins : \/ closure'[u].told = {}
                           \/ closure'[u].told = closure[u].told /\ closure'[u].wire = closure[u].wire
  PROVE  LastWordIsCurrent'
<1> SUFFICES ASSUME NEW u \in Logins, NEW topic \in Topics, topic \in closure'[u].told
             PROVE  /\ \A i \in News(u, topic)' :
                         (\A j \in News(u, topic)' : j =< i)
                           => closure'[u].wire[i].version = version'[topic]
                    /\ News(u, topic)' = {} /\ source'[topic] = u => view'[topic] = version'[topic]
  BY DEF LastWordIsCurrent
<1>1. closure'[u].told = closure[u].told /\ closure'[u].wire = closure[u].wire
  OBVIOUS
<1>2. News(u, topic)' = News(u, topic)
  BY <1>1 DEF News
<1> QED BY <1>1, <1>2 DEF LastWordIsCurrent

LEMMA LiveInitInv == LiveInit => LiveInv
<1> SUFFICES ASSUME LiveInit PROVE LiveInv
  OBVIOUS
<1>1. \A u \in Logins : closure[u] = Alone("unused")
  BY DEF LiveInit
<1>2. Alone("unused") \in ClosureState /\ Consistent(Alone("unused"))
      /\ Alone("unused").at = "unused" /\ Alone("unused").told = {}
  BY AloneState
<1>3. closure \in [Logins -> ClosureState]
  BY <1>2 DEF LiveInit
<1>4. LiveTypeOK
  <2>1. /\ version \in [Topics -> 0..MaxChanges] /\ view \in [Topics -> 0..MaxChanges]
        /\ source \in [Topics -> Logins \union {None}]
        /\ logins \in 0..MaxLogins /\ breaks \in 0..MaxBreaks
    BY LiveBoundsAssumption DEF LiveInit
  <2>2. hook \in [url : Logins \union {None}, socket : Logins \union {None},
                  timer : Logins \union {None}]
        /\ expired \subseteq Logins /\ connected \in BOOLEAN
    BY DEF LiveInit
  <2>3. \A u \in Logins : Consistent(closure[u])
    BY <1>1, <1>2
  <2> QED BY <1>3, <2>1, <2>2, <2>3 DEF LiveTypeOK, ClosureState, Consistent
<1>5. ConnectedIsOpen /\ LaterAreUnused /\ LastWordIsCurrent
  BY <1>1, <1>2 DEF LiveInit, ConnectedIsOpen, LaterAreUnused, LastWordIsCurrent
<1> QED BY <1>4, <1>5 DEF LiveInv

(* A step of one closure that publishes and delivers nothing. *)
LEMMA ClosureStep ==
  ASSUME LiveInv, NEW u \in Logins, NEW c \in ClosureState, Consistent(c),
         closure' = [closure EXCEPT ![u] = c], u =< logins,
         \/ c.told = {}
         \/ c.told = closure[u].told /\ c.wire = closure[u].wire,
         UNCHANGED <<version, logins, expired, view, source>>, breaks' \in 0..MaxBreaks,
         hook' \in [url : Logins \union {None}, socket : Logins \union {None},
                    timer : Logins \union {None}],
         \/ connected' = FALSE
         \/ connected' = connected /\ (closure[u].at \in {"open", "closing"} => c.at \in {"open", "closing"})
         \/ connected' = TRUE /\ c.at = "open"
  PROVE  LiveInv'
<1>1. closure \in [Logins -> ClosureState] /\ logins \in 0..MaxLogins /\ connected \in BOOLEAN
      /\ \A v \in Logins : Consistent(closure[v])
  BY DEF LiveInv, LiveTypeOK, ClosureState, Consistent
<1>2. /\ closure' \in [Logins -> ClosureState]
      /\ \A v \in Logins : closure'[v] = IF v = u THEN c ELSE closure[v]
  BY <1>1
<1>3. \A v \in Logins : Consistent(closure'[v])
  BY <1>1, <1>2
<1>4. LiveTypeOK'
  BY <1>1, <1>2, <1>3 DEF LiveInv, LiveTypeOK, ClosureState, Consistent
<1>5. LaterAreUnused'
  <2>1. u \in Nat
    BY DEF Logins
  <2> QED BY <1>1, <1>2, <2>1 DEF LiveInv, LaterAreUnused, Logins
<1>6. ConnectedIsOpen'
  BY <1>1, <1>2 DEF LiveInv, ConnectedIsOpen
<1>7. LastWordIsCurrent'
  BY <1>2, LastWordKept DEF LiveInv
<1> QED BY <1>4, <1>5, <1>6, <1>7 DEF LiveInv

(* What the closure of a step is, and that it has begun. *)
LEMMA Begun ==
  ASSUME LiveInv, NEW u \in Logins, closure[u].at # "unused"
  PROVE  /\ closure[u] \in ClosureState /\ Consistent(closure[u]) /\ u =< logins
         /\ hook \in [url : Logins \union {None}, socket : Logins \union {None},
                      timer : Logins \union {None}]
         /\ breaks \in 0..MaxBreaks
<1>1. closure \in [Logins -> ClosureState] /\ logins \in 0..MaxLogins /\ u \in Nat
  BY DEF LiveInv, LiveTypeOK, ClosureState, Logins
<1> QED BY <1>1 DEF LiveInv, LiveTypeOK, LaterAreUnused, Consistent

LEMMA AcceptKeeps == ASSUME LiveInv, NEW u \in Logins, Accept(u) \/ Subscribe(u) PROVE LiveInv'
<1>1. PICK session \in {"accepted", "subscribed"} :
        closure' = [closure EXCEPT ![u] = [closure[u] EXCEPT !.session = session]]
  BY DEF Accept, Subscribe
<1>2. closure[u].at \in {"connecting", "open"}
  BY DEF LiveInv, LiveTypeOK, Accept, Subscribe
<1>3. closure[u] \in ClosureState /\ Consistent(closure[u]) /\ u =< logins
      /\ hook \in [url : Logins \union {None}, socket : Logins \union {None},
                      timer : Logins \union {None}]
      /\ breaks \in 0..MaxBreaks
  BY <1>2, Begun
<1> DEFINE c == [closure[u] EXCEPT !.session = session]
<1>4. c \in ClosureState /\ c.told = closure[u].told /\ c.wire = closure[u].wire
      /\ c.at = closure[u].at /\ c.session = session
  BY <1>3 DEF ClosureState
<1>5. closure[u].session # "subscribed"
  BY DEF Accept, Subscribe
<1> HIDE DEF c
<1>6. Consistent(c)
  BY <1>2, <1>3, <1>4, <1>5 DEF Consistent
<1>7. closure' = [closure EXCEPT ![u] = c]
  BY <1>1 DEF c
<1> QED BY <1>3, <1>4, <1>6, <1>7, ClosureStep DEF Accept, Subscribe, page

LEMMA OpenedKeeps == ASSUME LiveInv, NEW u \in Logins, Opened(u) PROVE LiveInv'
<1>1. closure[u] \in ClosureState /\ Consistent(closure[u]) /\ u =< logins
      /\ hook \in [url : Logins \union {None}, socket : Logins \union {None},
                      timer : Logins \union {None}]
      /\ breaks \in 0..MaxBreaks
  BY Begun DEF Opened
<1> DEFINE c == [closure[u] EXCEPT !.at = "open"]
<1>2. c \in ClosureState /\ c.told = closure[u].told /\ c.wire = closure[u].wire
      /\ c.at = "open" /\ c.session = closure[u].session
  BY <1>1 DEF ClosureState
<1>3. closure' = [closure EXCEPT ![u] = c]
  BY DEF Opened
<1> HIDE DEF c
<1>4. Consistent(c)
  BY <1>1, <1>2 DEF Consistent
<1> QED BY <1>1, <1>2, <1>3, <1>4, ClosureStep DEF Opened

LEMMA CloseKeeps ==
  ASSUME LiveInv, NEW u \in Logins, Closed(u) \/ Rejected(u) \/ Broken(u)
  PROVE  LiveInv'
<1>1. closure[u].at # "unused" /\ Close(u)
  BY DEF Closed, Rejected, Broken
<1>2. u =< logins
      /\ hook \in [url : Logins \union {None}, socket : Logins \union {None},
                      timer : Logins \union {None}]
      /\ breaks \in 0..MaxBreaks
  BY <1>1, Begun
<1>3. breaks' \in 0..MaxBreaks
  BY <1>2, LiveBoundsAssumption DEF Closed, Rejected, Broken
<1> DEFINE c == Alone("waiting")
<1>4. c \in ClosureState /\ Consistent(c) /\ c.told = {}
  BY AloneState
<1>5. closure' = [closure EXCEPT ![u] = c] /\ hook' = [hook EXCEPT !.timer = u]
      /\ connected' = FALSE /\ UNCHANGED <<version, logins, expired, view, source>>
  BY <1>1 DEF Close
<1> HIDE DEF c
<1>6. hook' \in [url : Logins \union {None}, socket : Logins \union {None},
                 timer : Logins \union {None}]
  BY <1>2, <1>5
<1> QED BY <1>2, <1>3, <1>4, <1>5, <1>6, ClosureStep

LEMMA RetryKeeps == ASSUME LiveInv, NEW u \in Logins, Retry(u) PROVE LiveInv'
<1>1. closure[u].at = "waiting" /\ u =< logins
      /\ hook \in [url : Logins \union {None}, socket : Logins \union {None},
                      timer : Logins \union {None}]
      /\ breaks \in 0..MaxBreaks
  BY Begun DEF Retry
<1> DEFINE c == Alone("connecting")
<1>2. c \in ClosureState /\ Consistent(c) /\ c.told = {}
  BY AloneState
<1>3. closure' = [closure EXCEPT ![u] = c] /\ hook' = [hook EXCEPT !.socket = u]
      /\ UNCHANGED <<version, logins, expired, view, source, connected, breaks>>
  BY DEF Retry, page
<1> HIDE DEF c
<1>4. hook' \in [url : Logins \union {None}, socket : Logins \union {None},
                 timer : Logins \union {None}]
  BY <1>1, <1>3
<1> QED BY <1>1, <1>2, <1>3, <1>4, ClosureStep

LEMMA DeliverKeeps == ASSUME LiveInv, NEW u \in Logins, Deliver(u) PROVE LiveInv'
<1> DEFINE w == closure[u].wire
           c == [closure[u] EXCEPT !.wire = Tail(@)]
<1>1. closure \in [Logins -> ClosureState] /\ closure[u] \in ClosureState
      /\ Consistent(closure[u]) /\ closure[u].at = "open" /\ w \in Seq(Event) /\ w # <<>>
  <2>1. closure[u].at = "open" /\ w # <<>>
    BY DEF Deliver
  <2>2. closure \in [Logins -> ClosureState] /\ closure[u] \in ClosureState
        /\ Consistent(closure[u])
    BY <2>1, Begun DEF LiveInv, LiveTypeOK, ClosureState
  <2> QED BY <2>1, <2>2 DEF ClosureState
<1>2. c \in ClosureState /\ c.told = closure[u].told /\ c.wire = Tail(w)
      /\ c.at = "open" /\ c.session = closure[u].session
  <2>1. Tail(w) \in Seq(Event)
    BY <1>1
  <2>2. c = [closure[u] EXCEPT !.wire = Tail(w)]
    OBVIOUS
  <2> HIDE DEF c, w
  <2> QED BY <1>1, <2>1, <2>2 DEF ClosureState
<1>3. /\ Len(w) \in Nat /\ Len(w) > 0 /\ Head(w) = w[1] /\ w[1] \in Event
      /\ DOMAIN w = 1..Len(w) /\ DOMAIN Tail(w) = 1..(Len(w) - 1)
      /\ \A i \in 1..(Len(w) - 1) : Tail(w)[i] = w[i + 1]
  BY <1>1
<1>4. /\ closure' = [closure EXCEPT ![u] = c]
      /\ view' = [view EXCEPT ![w[1].topic] = w[1].version]
      /\ source' = [source EXCEPT ![w[1].topic] = u]
      /\ UNCHANGED <<version, hook, logins, expired, connected, breaks>>
  BY <1>3 DEF Deliver
<1>5. w[1].topic \in Topics /\ w[1].version \in 0..MaxChanges
  BY <1>3, LiveBoundsAssumption DEF Event
<1>6. News(u, w[1].topic) = {j \in 1..Len(w) : w[j].topic = w[1].topic}
      /\ \A x \in Topics : News(u, x) = {j \in 1..Len(w) : w[j].topic = x}
  BY <1>3, <1>5 DEF News
<1> HIDE DEF c, w
<1>7. /\ closure' \in [Logins -> ClosureState]
      /\ \A v \in Logins : closure'[v] = IF v = u THEN c ELSE closure[v]
  BY <1>1, <1>2, <1>4
<1>8. LiveTypeOK'
  <2>1. \A v \in Logins : Consistent(closure'[v])
    <3>1. Consistent(c)
      <4>1. closure[u].session = "subscribed"
        BY <1>1 DEF Consistent, w
      <4> QED BY <1>2, <4>1 DEF Consistent
    <3> QED BY <1>7, <3>1 DEF LiveInv, LiveTypeOK, Consistent
  <2>2. view' \in [Topics -> 0..MaxChanges] /\ source' \in [Topics -> Logins \union {None}]
    BY <1>4, <1>5 DEF LiveInv, LiveTypeOK
  <2> QED BY <1>4, <1>7, <2>1, <2>2 DEF LiveInv, LiveTypeOK, ClosureState, Consistent
<1>9. LaterAreUnused' /\ ConnectedIsOpen'
  BY <1>1, <1>2, <1>4, <1>7 DEF LiveInv, LaterAreUnused, ConnectedIsOpen
<1>10. ASSUME NEW v \in Logins, NEW x \in Topics, x \in closure'[v].told
       PROVE  /\ \A i \in News(v, x)' :
                   (\A j \in News(v, x)' : j =< i) => closure'[v].wire[i].version = version'[x]
              /\ News(v, x)' = {} /\ source'[x] = v => view'[x] = version'[x]
  <2>1. CASE v # u
    <3>1. closure'[v] = closure[v] /\ News(v, x)' = News(v, x)
      BY <1>7, <2>1 DEF News
    <3>2. source'[x] = v => source[x] = v /\ view'[x] = view[x]
      BY <1>4, <1>5, <2>1 DEF LiveInv, LiveTypeOK
    <3> QED BY <1>4, <1>10, <3>1, <3>2 DEF LiveInv, LastWordIsCurrent
  <2>2. CASE v = u
    <3>1. x \in closure[u].told /\ closure'[u].wire = Tail(w)
      BY <1>2, <1>7, <1>10, <2>2
    <3>2. \A i \in News(u, x) :
            (\A j \in News(u, x) : j =< i) => w[i].version = version[x]
      BY <3>1 DEF LiveInv, LastWordIsCurrent, w
    <3>3. News(u, x)' = {i \in 1..(Len(w) - 1) : w[i + 1].topic = x}
      BY <1>3, <3>1 DEF News
    <3>4. ASSUME NEW i \in News(u, x)', \A j \in News(u, x)' : j =< i
          PROVE  closure'[u].wire[i].version = version'[x]
      <4>1. i + 1 \in News(u, x)
        BY <1>3, <1>6, <3>3
      <4>2. ASSUME NEW j \in News(u, x) PROVE j =< i + 1
        <5>1. j \in 1..Len(w) /\ i \in 1..(Len(w) - 1)
          BY <1>6, <3>3
        <5>2. CASE j = 1
          BY <5>1, <5>2
        <5>3. CASE j # 1
          <6>1. j - 1 \in News(u, x)'
            BY <1>3, <1>6, <3>3, <5>1, <5>3
          <6> QED BY <1>3, <3>4, <5>1, <6>1
        <5> QED BY <5>2, <5>3
      <4>3. w[i + 1].version = version[x]
        BY <3>2, <4>1, <4>2
      <4> QED BY <1>3, <1>4, <3>1, <3>3, <4>3
    <3>5. ASSUME News(u, x)' = {}, source'[x] = u PROVE view'[x] = version'[x]
      <4>1. \A j \in News(u, x) : j = 1
        <5> SUFFICES ASSUME NEW j \in News(u, x), j # 1 PROVE FALSE
          OBVIOUS
        <5>1. j - 1 \in News(u, x)'
          BY <1>3, <1>6, <3>3
        <5> QED BY <3>5, <5>1
      <4>2. CASE x = w[1].topic
        <5>1. 1 \in News(u, x)
          BY <1>3, <1>6, <4>2
        <5>2. w[1].version = version[x]
          BY <3>2, <4>1, <5>1
        <5> QED BY <1>4, <1>5, <4>2, <5>2 DEF LiveInv, LiveTypeOK
      <4>3. CASE x # w[1].topic
        <5>1. News(u, x) = {}
          BY <1>6, <4>1, <4>3
        <5>2. source[x] = u /\ view'[x] = view[x]
          BY <1>4, <1>5, <3>5, <4>3 DEF LiveInv, LiveTypeOK
        <5> QED BY <1>4, <3>1, <5>1, <5>2 DEF LiveInv, LastWordIsCurrent
      <4> QED BY <4>2, <4>3
    <3> QED BY <2>2, <3>4, <3>5
  <2> QED BY <2>1, <2>2
<1>11. LastWordIsCurrent'
  BY <1>10 DEF LastWordIsCurrent
<1> QED BY <1>8, <1>9, <1>11 DEF LiveInv

LEMMA PublishKeeps == ASSUME LiveInv, NEW topic \in Topics, Publish(topic) PROVE LiveInv'
<1> DEFINE event == [topic |-> topic, version |-> version'[topic]]
           Told(v) == [closure[v] EXCEPT !.told = @ \union {topic}, !.wire = Append(@, event)]
<1>1. /\ closure \in [Logins -> ClosureState]
      /\ \A v \in Logins : Consistent(closure[v])
      /\ version \in [Topics -> 0..MaxChanges]
  BY DEF LiveInv, LiveTypeOK, ClosureState, Consistent
<1>2. /\ version[topic] < MaxChanges
      /\ version' = [version EXCEPT ![topic] = version[topic] + 1]
      /\ closure' = [v \in Logins |->
           IF closure[v].session = "subscribed" THEN Told(v) ELSE closure[v]]
      /\ UNCHANGED <<hook, logins, expired, view, connected, source, breaks>>
  BY DEF Publish, page
<1>3. version' \in [Topics -> 0..MaxChanges] /\ version'[topic] \in 1..MaxChanges
      /\ \A x \in Topics : x # topic => version'[x] = version[x]
  <2>1. version[topic] \in 0..MaxChanges /\ MaxChanges \in Nat /\ version[topic] < MaxChanges
    BY <1>1, <1>2, LiveBoundsAssumption
  <2>2. version[topic] + 1 \in 0..MaxChanges /\ version[topic] + 1 \in 1..MaxChanges
    BY <2>1
  <2> QED BY <1>1, <1>2, <2>2
<1>4. event \in Event /\ event.topic = topic /\ event.version = version'[topic]
  BY <1>3 DEF Event
<1> HIDE DEF event
<1>5. ASSUME NEW v \in Logins
      PROVE  /\ closure[v].wire \in Seq(Event) /\ Told(v) \in ClosureState
             /\ Told(v).told = closure[v].told \union {topic}
             /\ Told(v).wire = Append(closure[v].wire, event)
             /\ Told(v).at = closure[v].at /\ Told(v).session = closure[v].session
  <2> DEFINE told == closure[v].told \union {topic}
             wire == Append(closure[v].wire, event)
  <2>1. closure[v] \in ClosureState
    BY <1>1
  <2>2. closure[v].wire \in Seq(Event) /\ told \in SUBSET Topics
    BY <2>1 DEF ClosureState
  <2>3. wire \in Seq(Event)
    BY <1>4, <2>2
  <2>4. Told(v) = [closure[v] EXCEPT !.told = told, !.wire = wire]
    OBVIOUS
  <2> HIDE DEF told, wire, Told
  <2>5. /\ Told(v) \in ClosureState /\ Told(v).told = told /\ Told(v).wire = wire
        /\ Told(v).at = closure[v].at /\ Told(v).session = closure[v].session
    BY <2>1, <2>2, <2>3, <2>4 DEF ClosureState
  <2> QED BY <2>2, <2>5 DEF told, wire
<1> HIDE DEF Told
<1>6. /\ closure' \in [Logins -> ClosureState]
      /\ \A v \in Logins : closure'[v].at = closure[v].at /\ Consistent(closure'[v])
  BY <1>1, <1>2, <1>5 DEF Consistent
<1>7. LiveTypeOK'
  BY <1>2, <1>3, <1>6 DEF LiveInv, LiveTypeOK, ClosureState, Consistent
<1>8. LaterAreUnused' /\ ConnectedIsOpen'
  BY <1>2, <1>6 DEF LiveInv, LaterAreUnused, ConnectedIsOpen
<1>9. ASSUME NEW v \in Logins, NEW x \in Topics, x \in closure'[v].told
      PROVE  /\ \A i \in News(v, x)' :
                  (\A j \in News(v, x)' : j =< i) => closure'[v].wire[i].version = version'[x]
             /\ News(v, x)' = {} /\ source'[x] = v => view'[x] = version'[x]
  <2> DEFINE w == closure[v].wire
             n == Len(w)
  <2>1. closure[v].session = "subscribed"
    BY <1>1, <1>2, <1>9 DEF Consistent
  <2>2. closure'[v] = Told(v)
    BY <1>2, <2>1
  <2>3. /\ n \in Nat /\ DOMAIN w = 1..n /\ DOMAIN closure'[v].wire = 1..(n + 1)
        /\ closure'[v].wire[n + 1] = event
        /\ \A i \in 1..n : closure'[v].wire[i] = w[i]
    BY <1>4, <1>5, <2>2
  <2>4. News(v, x)' = IF x = topic THEN News(v, x) \union {n + 1} ELSE News(v, x)
    <3>1. News(v, x)' = {i \in 1..(n + 1) : closure'[v].wire[i].topic = x}
      BY <2>3 DEF News
    <3>2. News(v, x) = {i \in 1..n : w[i].topic = x}
      BY <2>3 DEF News
    <3> HIDE DEF w, n
    <3> QED BY <1>4, <2>3, <3>1, <3>2
  <2>5. News(v, x) \subseteq 1..n
    BY <2>3 DEF News
  <2> HIDE DEF w, n
  <2>6. CASE x = topic
    <3>1. n + 1 \in News(v, x)'
      BY <2>4, <2>6
    <3>2. ASSUME NEW i \in News(v, x)', \A j \in News(v, x)' : j =< i
          PROVE  closure'[v].wire[i].version = version'[x]
      <4>1. i \in 1..(n + 1) /\ n + 1 =< i
        BY <2>3, <2>4, <2>5, <2>6, <3>1, <3>2
      <4>2. i = n + 1
        BY <2>3, <4>1
      <4> QED BY <1>4, <2>3, <2>6, <4>2
    <3> QED BY <3>1, <3>2
  <2>7. CASE x # topic
    <3>1. x \in closure[v].told
      BY <1>5, <1>9, <2>2, <2>7
    <3>2. /\ \A i \in News(v, x) : (\A j \in News(v, x) : j =< i) => w[i].version = version[x]
          /\ News(v, x) = {} /\ source[x] = v => view[x] = version[x]
      BY <3>1 DEF LiveInv, LastWordIsCurrent, w
    <3>3. \A i \in News(v, x) : closure'[v].wire[i] = w[i]
      BY <2>3, <2>5
    <3> QED BY <1>2, <1>3, <2>4, <2>7, <3>2, <3>3
  <2> QED BY <2>6, <2>7
<1>10. LastWordIsCurrent'
  BY <1>9 DEF LastWordIsCurrent
<1> QED BY <1>7, <1>8, <1>10 DEF LiveInv

(* The cleanup of the effect ends sockets and timers, but opens nothing. *)
LEMMA CleanedIs ==
  ASSUME LiveInv, NEW v \in Logins
  PROVE  /\ Cleaned[v] \in ClosureState /\ Consistent(Cleaned[v])
         /\ Cleaned[v] = closure[v] \/ Cleaned[v].told = {}
         /\ closure[v].at \in {"open", "closing"} => Cleaned[v].at \in {"open", "closing"}
         /\ closure[v].at = "unused" => Cleaned[v] = closure[v]
<1>1. closure[v] \in ClosureState /\ Consistent(closure[v])
  BY DEF LiveInv, LiveTypeOK, ClosureState, Consistent
<1>2. \/ Cleaned[v] = closure[v]
      \/ closure[v].at \in {"connecting", "open"} /\ Cleaned[v] = Alone("closing")
      \/ closure[v].at = "waiting" /\ Cleaned[v] = Alone("ended")
  BY DEF Cleaned
<1>3. \A at \in {"closing", "ended"} :
        Alone(at) \in ClosureState /\ Consistent(Alone(at)) /\ Alone(at).told = {}
        /\ Alone(at).at = at
  BY AloneState
<1> QED BY <1>1, <1>2, <1>3

LEMMA LoginKeeps == ASSUME LiveInv, Login PROVE LiveInv'
<1> DEFINE u == logins + 1
           new == Alone("connecting")
<1>1. logins \in 0..MaxLogins /\ u \in Logins /\ MaxLogins \in Nat
  BY LiveBoundsAssumption DEF LiveInv, LiveTypeOK, Login, Logins
<1>2. new \in ClosureState /\ Consistent(new) /\ new.told = {} /\ new.at = "connecting"
  BY AloneState
<1>3. /\ logins' = u /\ hook' = [hook EXCEPT !.url = u, !.socket = u]
      /\ closure' = [Cleaned EXCEPT ![u] = new]
      /\ UNCHANGED <<version, expired, view, connected, source, breaks>>
  BY DEF Login, page
<1> HIDE DEF new
<1>4. /\ closure' \in [Logins -> ClosureState]
      /\ \A v \in Logins : closure'[v] = IF v = u THEN new ELSE Cleaned[v]
  <2>1. \A v \in Logins : Cleaned[v] \in ClosureState
    BY CleanedIs
  <2>2. Cleaned \in [Logins -> ClosureState]
    BY <2>1 DEF Cleaned
  <2> QED BY <1>2, <1>3, <2>2
<1>5. closure[u].at = "unused"
  BY <1>1 DEF LiveInv, LaterAreUnused
<1>6. LiveTypeOK'
  <2>1. \A v \in Logins : Consistent(closure'[v])
    BY <1>2, <1>4, CleanedIs
  <2>2. hook' \in [url : Logins \union {None}, socket : Logins \union {None},
                   timer : Logins \union {None}]
        /\ logins' \in 0..MaxLogins
    <3>1. u \in 0..MaxLogins
      BY <1>1 DEF Logins
    <3> QED BY <1>1, <1>3, <3>1 DEF LiveInv, LiveTypeOK
  <2> QED BY <1>3, <1>4, <2>1, <2>2 DEF LiveInv, LiveTypeOK, ClosureState, Consistent
<1>7. LaterAreUnused'
  <2> SUFFICES ASSUME NEW v \in Logins, v > u PROVE closure'[v].at = "unused"
    BY <1>3 DEF LaterAreUnused
  <2>1. closure[v].at = "unused"
    BY <1>1 DEF LiveInv, LaterAreUnused, Logins
  <2> QED BY <1>1, <1>4, <2>1, CleanedIs
<1>8. ConnectedIsOpen'
  <2> SUFFICES ASSUME connected PROVE \E v \in Logins : closure'[v].at \in {"open", "closing"}
    BY <1>3 DEF ConnectedIsOpen
  <2>1. PICK v \in Logins : closure[v].at \in {"open", "closing"}
    BY DEF LiveInv, ConnectedIsOpen
  <2> QED BY <1>4, <1>5, <2>1, CleanedIs
<1>9. LastWordIsCurrent'
  <2>1. \A v \in Logins : \/ closure'[v].told = {}
                          \/ closure'[v].told = closure[v].told /\ closure'[v].wire = closure[v].wire
    BY <1>2, <1>4, CleanedIs
  <2> QED BY <1>3, <2>1, LastWordKept DEF LiveInv
<1> QED BY <1>6, <1>7, <1>8, <1>9 DEF LiveInv

LEMMA LogoutKeeps == ASSUME LiveInv, Logout PROVE LiveInv'
<1>1. /\ hook' = [hook EXCEPT !.url = None] /\ closure' = Cleaned
      /\ UNCHANGED <<version, logins, expired, view, connected, source, breaks>>
  BY DEF Logout, page
<1>2. \A v \in Logins : closure'[v] \in ClosureState /\ Consistent(closure'[v])
  BY <1>1, CleanedIs
<1>3. closure' \in [Logins -> ClosureState]
  BY <1>1, <1>2 DEF Cleaned
<1>4. LiveTypeOK'
  <2>1. hook' \in [url : Logins \union {None}, socket : Logins \union {None},
                   timer : Logins \union {None}]
    BY <1>1 DEF LiveInv, LiveTypeOK
  <2> QED BY <1>1, <1>2, <1>3, <2>1 DEF LiveInv, LiveTypeOK, ClosureState, Consistent
<1>5. LaterAreUnused' /\ ConnectedIsOpen'
  BY <1>1, CleanedIs DEF LiveInv, LaterAreUnused, ConnectedIsOpen
<1>6. LastWordIsCurrent'
  <2>1. \A v \in Logins : \/ closure'[v].told = {}
                          \/ closure'[v].told = closure[v].told /\ closure'[v].wire = closure[v].wire
    BY <1>1, CleanedIs
  <2> QED BY <1>1, <2>1, LastWordKept DEF LiveInv
<1> QED BY <1>4, <1>5, <1>6 DEF LiveInv

LEMMA StayKeeps ==
  ASSUME LiveInv, UNCHANGED liveVars \/ \E u \in Logins : ExpireToken(u)
  PROVE  LiveInv'
<1>1. /\ UNCHANGED <<version, hook, closure, logins, view, connected, breaks, source>>
      /\ expired' \subseteq Logins
  BY DEF LiveInv, LiveTypeOK, ExpireToken, liveVars, page
<1> QED BY <1>1 DEF LiveInv, LiveTypeOK, LaterAreUnused, ConnectedIsOpen, LastWordIsCurrent, News

LEMMA LiveNextInv == LiveInv /\ [LiveNext]_liveVars => LiveInv'
<1> SUFFICES ASSUME LiveInv, [LiveNext]_liveVars PROVE LiveInv'
  OBVIOUS
<1>1. ASSUME NEW topic \in Topics, Publish(topic) PROVE LiveInv'
  BY <1>1, PublishKeeps
<1>2. CASE Login \/ Logout
  BY <1>2, LoginKeeps, LogoutKeeps
<1>3. ASSUME NEW u \in Logins, ExpireToken(u) \/ Broken(u) \/ Proceed(u) PROVE LiveInv'
  BY <1>3, StayKeeps, CloseKeeps, AcceptKeeps, OpenedKeeps, DeliverKeeps, RetryKeeps
     DEF Proceed
<1>4. CASE UNCHANGED liveVars
  BY <1>4, StayKeeps
<1> QED BY <1>1, <1>2, <1>3, <1>4 DEF LiveNext

(* The variables of the live view keep their types, and no session outlives its socket. *)
THEOREM LiveTypeCorrect == LiveSpec => []LiveTypeOK
<1>1. LiveInv => LiveTypeOK
  BY DEF LiveInv
<1> QED BY <1>1, LiveInitInv, LiveNextInv, PTL DEF LiveSpec

(* Whatever logins, breaks and reconnections came before, a socket that was told of a
   topic leaves the page with the state of the server: no event is lost between
   bus.publish and onMessage, and none overtakes another on one socket. *)
THEOREM LastWordStaysCurrent == LiveSpec => []LastWordIsCurrent
<1>1. LiveInv => LastWordIsCurrent
  BY DEF LiveInv
<1> QED BY <1>1, LiveInitInv, LiveNextInv, PTL DEF LiveSpec

(* The page never says `connected' without a socket that is open or being closed,
   although all closures of useWebSocket share the flag. *)
THEOREM ConnectedStaysOpen == LiveSpec => []ConnectedIsOpen
<1>1. LiveInv => ConnectedIsOpen
  BY DEF LiveInv
<1> QED BY <1>1, LiveInitInv, LiveNextInv, PTL DEF LiveSpec

=============================================================================
