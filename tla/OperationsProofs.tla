-------------------------- MODULE OperationsProofs ---------------------------
(***************************************************************************)
(* Proofs about GitCopies and ReleaseRunner: what the operator of an       *)
(* installation relies on.                                                 *)
(***************************************************************************)
EXTENDS GitCopies, ReleaseRunner, TLAPS, FiniteSetTheorems

-----------------------------------------------------------------------------
(***************************************************************************)
(* Proofs about GitCopies, for any requests, repositories, copies, limit   *)
(* and number of faults.                                                   *)
(*                                                                         *)
(* The safety properties are not inductive: nothing in them says that what *)
(* a rollback hook or a cleanup job is about to remove is in nobody's use. *)
(* GitInv adds that a copy has one owner (UniqueMaker, UniqueRow), that a  *)
(* copy a row points to is in a request's hands only after a COMMIT whose  *)
(* answer was lost (MadeIsPrivate), and that a copy with a cleanup job     *)
(* never comes back into use (CleanedIsOut).                               *)
(***************************************************************************)
\* The stages in which a request's transaction is open.
Held == {"allocating", "copying", "copied", "saved"}

\* The row a request has read is as it read it, until it commits.
LockIsHeld ==
    \A q \in GitRequest :
        work[q] \in Held =>
            /\ gitLock = q
            /\ target[q] \in Repo
            /\ previous[q] = gitdir[target[q]]

\* What the request has made at each stage.
MadeByStage ==
    \A q \in GitRequest :
        /\ work[q] \in {"idle", "allocating"} => made[q] = NoCopy
        /\ work[q] \in {"copying", "copied"} => made[q] \in disk /\ ~removes[q]
        /\ work[q] = "allocating" => ~removes[q]
        /\ work[q] = "saved" /\ ~removes[q] => made[q] \in disk
        /\ work[q] = "saved" /\ removes[q] => made[q] = NoCopy /\ previous[q] \in Copy

\* No two requests have made the same directory.
UniqueMaker ==
    \A q, r \in GitRequest : made[q] = made[r] /\ made[q] # NoCopy => q = r

\* No two rows point to the same directory.
UniqueRow ==
    /\ \A x, y \in Repo : gitdir[x] = gitdir[y] /\ gitdir[x] # NoCopy => x = y
    /\ \A x \in Repo : gitdir[x] \in issued \cup {NoCopy}

\* A directory of a row is in a request's hands only when it rolls back after a
\* COMMIT whose answer it did not get.
MadeIsPrivate ==
    \A q \in GitRequest, x \in Repo :
        made[q] = gitdir[x] /\ gitdir[x] # NoCopy =>
            work[q] = "undoing" /\ made[q] \in doubtful

\* A directory with a cleanup job is in no row, and nobody builds on it.
CleanedIsOut ==
    \A c \in Copy :
        cleanup[c] # "none" =>
            /\ c \in issued
            /\ \A x \in Repo : gitdir[x] # c
            /\ \A q \in GitRequest : made[q] = c => work[q] = "undoing"

\* A request that creates a repository has counted the rows, and they stay.
RoomForOne ==
    \A q \in GitRequest :
        work[q] \in Held /\ previous[q] = NoCopy => Cardinality(Rows(gitdir)) < MaxRepos

\* Who owns which directory.
Ownership ==
    /\ LockIsHeld
    /\ MadeByStage
    /\ UniqueMaker
    /\ UniqueRow
    /\ MadeIsPrivate
    /\ CleanedIsOut

\* The inductive invariant of the working copies.
GitInv == GitTypeOK /\ Ownership

-----------------------------------------------------------------------------
\* Every step keeps every variable in its type.
LEMMA GitTypeStep == GitInv /\ [GitNext]_gitVars => GitTypeOK'
<1> SUFFICES ASSUME GitTypeOK, Ownership, [GitNext]_gitVars PROVE GitTypeOK'
  BY DEF GitInv, Ownership
<1> USE GitAssumption
    DEF gitVars, copyVars, requestVars, ghostVars, WorkStage, CleanupStage, GitTypeOK
<1>1. ASSUME NEW q \in GitRequest, NEW x \in Repo, CreateRepo(q, x) PROVE GitTypeOK'
  BY <1>1 DEF CreateRepo, Enters, LockIsFree, DoNext
<1>2. ASSUME NEW q \in GitRequest, NEW x \in Repo, FetchRepo(q, x) PROVE GitTypeOK'
  BY <1>2 DEF FetchRepo, Enters, LockIsFree, DoNext
<1>3. ASSUME NEW q \in GitRequest, NEW x \in Repo, DeleteRepo(q, x) PROVE GitTypeOK'
  BY <1>3 DEF DeleteRepo, Enters, LockIsFree, DoNext
<1>4. ASSUME NEW q \in GitRequest, NEW c \in Copy, AllocateCopy(q, c) PROVE GitTypeOK'
  BY <1>4 DEF AllocateCopy, DoNext
<1>5. ASSUME NEW q \in GitRequest, CopyMade(q) \/ SaveRow(q) PROVE GitTypeOK'
  BY <1>5 DEF CopyMade, SaveRow, DoNext
<1>6. ASSUME NEW q \in GitRequest, CopyFails(q) PROVE GitTypeOK'
  BY <1>6 DEF CopyFails, DoNext
<1>7. ASSUME NEW q \in GitRequest, RequestFails(q) PROVE GitTypeOK'
  BY <1>7 DEF RequestFails, DoNext
<1>8. ASSUME NEW q \in GitRequest, CommitRequest(q) PROVE GitTypeOK'
  BY <1>8 DEF CommitRequest, GitdirAfter, CleanupAfter, RequestEnds, DoNext
<1>9. ASSUME NEW q \in GitRequest, CommitLooksFailed(q) PROVE GitTypeOK'
  <2>1. gitdir' \in [Repo -> Copy \cup {NoCopy}]
    BY <1>9 DEF CommitLooksFailed, GitdirAfter
  <2>2. cleanup' \in [Copy -> CleanupStage]
    BY <1>9 DEF CommitLooksFailed, CleanupAfter
  <2>3. doubtful' \subseteq Copy
    BY <1>9 DEF CommitLooksFailed
  <2>. QED
    BY <1>9, <2>1, <2>2, <2>3 DEF CommitLooksFailed, GitFault, DoNext
<1>10. ASSUME NEW q \in GitRequest, UndoCopy(q) PROVE GitTypeOK'
  BY <1>10 DEF UndoCopy, DiskUndone, RequestEnds, DoNext
<1>11. ASSUME NEW q \in GitRequest, RequestDies(q) PROVE GitTypeOK'
  BY <1>11 DEF RequestDies, GitFault, RequestEnds, DoNext
<1>12. ASSUME NEW c \in Copy, TwoMinutesPass(c) PROVE GitTypeOK'
  BY <1>12 DEF TwoMinutesPass
<1>13. ASSUME NEW c \in Copy, CleanupChecks(c) PROVE GitTypeOK'
  BY <1>13 DEF CleanupChecks, Unreferenced, PointedTo, Rows
<1>14. ASSUME NEW c \in Copy, CleanupRemoves(c) PROVE GitTypeOK'
  BY <1>14 DEF CleanupRemoves
<1>15. ASSUME NEW c \in Copy, CleanupRetried(c) PROVE GitTypeOK'
  BY <1>15 DEF CleanupRetried, GitFault
<1>16. ASSUME NEW c \in Copy, CleanupGivesUp(c) PROVE GitTypeOK'
  BY <1>16 DEF CleanupGivesUp, GitFault
<1>17. ASSUME UNCHANGED gitVars PROVE GitTypeOK'
  BY <1>17
<1>. QED
  BY <1>1, <1>2, <1>3, <1>4, <1>5, <1>6, <1>7, <1>8, <1>9,
     <1>10, <1>11, <1>12, <1>13, <1>14, <1>15, <1>16, <1>17
     DEF GitNext, RequestStep, CleanupStep

\* Only the holder of the lock changes a row, to a copy that only it has made;
\* the copy that goes out of use was its row's, and stays out of use.
LEMMA OwnershipStep == GitInv /\ [GitNext]_gitVars => Ownership'
<1> SUFFICES ASSUME GitTypeOK, LockIsHeld, MadeByStage, UniqueMaker,
                    UniqueRow, MadeIsPrivate, CleanedIsOut, [GitNext]_gitVars
             PROVE  Ownership'
  BY DEF GitInv, Ownership
<1> USE GitAssumption
    DEF Held, gitVars, copyVars, requestVars, ghostVars, WorkStage, CleanupStage, GitTypeOK,
        Ownership, LockIsHeld, MadeByStage, UniqueMaker, UniqueRow, MadeIsPrivate, CleanedIsOut
<1>1. ASSUME NEW q \in GitRequest, NEW x \in Repo, CreateRepo(q, x) PROVE Ownership'
  BY <1>1 DEF CreateRepo, Enters, LockIsFree, DoNext
<1>2. ASSUME NEW q \in GitRequest, NEW x \in Repo, FetchRepo(q, x) PROVE Ownership'
  BY <1>2 DEF FetchRepo, Enters, LockIsFree, DoNext
<1>3. ASSUME NEW q \in GitRequest, NEW x \in Repo, DeleteRepo(q, x) PROVE Ownership'
  BY <1>3 DEF DeleteRepo, Enters, LockIsFree, DoNext
<1>4. ASSUME NEW q \in GitRequest, NEW c \in Copy, AllocateCopy(q, c) PROVE Ownership'
  BY <1>4 DEF AllocateCopy, DoNext
<1>5. ASSUME NEW q \in GitRequest, CopyMade(q) \/ SaveRow(q) PROVE Ownership'
  BY <1>5 DEF CopyMade, SaveRow, DoNext
<1>6. ASSUME NEW q \in GitRequest, CopyFails(q) PROVE Ownership'
  BY <1>6 DEF CopyFails, DoNext
<1>7. ASSUME NEW q \in GitRequest, RequestFails(q) PROVE Ownership'
  BY <1>7 DEF RequestFails, DoNext
<1>8. ASSUME NEW q \in GitRequest, CommitRequest(q) PROVE Ownership'
  BY <1>8 DEF CommitRequest, GitdirAfter, CleanupAfter, RequestEnds, DoNext
<1>9. ASSUME NEW q \in GitRequest, CommitLooksFailed(q) PROVE Ownership'
  BY <1>9 DEF CommitLooksFailed, GitFault, GitdirAfter, CleanupAfter, DoNext
<1>10. ASSUME NEW q \in GitRequest, UndoCopy(q) PROVE Ownership'
  BY <1>10 DEF UndoCopy, DiskUndone, RequestEnds, DoNext
<1>11. ASSUME NEW q \in GitRequest, RequestDies(q) PROVE Ownership'
  BY <1>11 DEF RequestDies, GitFault, RequestEnds, DoNext
<1>12. ASSUME NEW c \in Copy, TwoMinutesPass(c) PROVE Ownership'
  BY <1>12 DEF TwoMinutesPass
<1>13. ASSUME NEW c \in Copy, CleanupChecks(c) PROVE Ownership'
  BY <1>13 DEF CleanupChecks, Unreferenced, PointedTo, Rows
<1>14. ASSUME NEW c \in Copy, CleanupRemoves(c) PROVE Ownership'
  BY <1>14 DEF CleanupRemoves
<1>15. ASSUME NEW c \in Copy, CleanupRetried(c) PROVE Ownership'
  BY <1>15 DEF CleanupRetried, GitFault
<1>16. ASSUME NEW c \in Copy, CleanupGivesUp(c) PROVE Ownership'
  BY <1>16 DEF CleanupGivesUp, GitFault
<1>17. ASSUME UNCHANGED gitVars PROVE Ownership'
  BY <1>17
<1>. QED
  BY <1>1, <1>2, <1>3, <1>4, <1>5, <1>6, <1>7, <1>8, <1>9,
     <1>10, <1>11, <1>12, <1>13, <1>14, <1>15, <1>16, <1>17
     DEF GitNext, RequestStep, CleanupStep

\* The inductive invariant holds in every state.
LEMMA GitInvHolds == GitSpec => []GitInv
<1>1. GitInit => GitInv
  BY GitAssumption
  DEF GitInit, GitInv, GitTypeOK, Ownership, LockIsHeld, MadeByStage, UniqueMaker,
      UniqueRow, MadeIsPrivate, CleanedIsOut, Held, WorkStage, CleanupStage
<1>2. GitInv /\ [GitNext]_gitVars => GitInv'
  BY GitTypeStep, OwnershipStep DEF GitInv
<1>. QED
  BY <1>1, <1>2, PTL DEF GitSpec

\* Every variable keeps its type.
THEOREM GitTypeCorrect == GitSpec => []GitTypeOK
<1>1. GitInv => GitTypeOK
  BY DEF GitInv
<1>. QED
  BY <1>1, GitInvHolds, PTL

-----------------------------------------------------------------------------

\* The two properties of the directories: none is missing, none is left over.
CopiesKept == RowHasCopy /\ CopiesAccountedFor

\* What is removed is in no row, or its COMMIT was doubtful; a directory passes
\* from its maker to a row, and from the row to a cleanup.
LEMMA CopiesStep == GitInv /\ CopiesKept /\ [GitNext]_gitVars => CopiesKept'
<1> SUFFICES ASSUME GitTypeOK, LockIsHeld, MadeByStage, UniqueMaker,
                    UniqueRow, MadeIsPrivate, CleanedIsOut,
                    RowHasCopy, CopiesAccountedFor, [GitNext]_gitVars
             PROVE  CopiesKept'
  BY DEF GitInv, Ownership, CopiesKept
<1> USE GitAssumption
    DEF gitVars, copyVars, requestVars, ghostVars, WorkStage, CleanupStage, GitTypeOK,
        Held, LockIsHeld, MadeByStage, UniqueMaker, UniqueRow, MadeIsPrivate, CleanedIsOut,
        CopiesKept, RowHasCopy, CopiesAccountedFor, PointedTo, Rows
<1>1. ASSUME NEW q \in GitRequest, NEW x \in Repo, CreateRepo(q, x) PROVE CopiesKept'
  BY <1>1 DEF CreateRepo, Enters, LockIsFree, DoNext
<1>2. ASSUME NEW q \in GitRequest, NEW x \in Repo, FetchRepo(q, x) PROVE CopiesKept'
  BY <1>2 DEF FetchRepo, Enters, LockIsFree, DoNext
<1>3. ASSUME NEW q \in GitRequest, NEW x \in Repo, DeleteRepo(q, x) PROVE CopiesKept'
  BY <1>3 DEF DeleteRepo, Enters, LockIsFree, DoNext
<1>4. ASSUME NEW q \in GitRequest, NEW c \in Copy, AllocateCopy(q, c) PROVE CopiesKept'
  BY <1>4 DEF AllocateCopy, DoNext
<1>5. ASSUME NEW q \in GitRequest, CopyMade(q) \/ SaveRow(q) PROVE CopiesKept'
  BY <1>5 DEF CopyMade, SaveRow, DoNext
<1>6. ASSUME NEW q \in GitRequest, CopyFails(q) PROVE CopiesKept'
  BY <1>6 DEF CopyFails, DoNext
<1>7. ASSUME NEW q \in GitRequest, RequestFails(q) PROVE CopiesKept'
  BY <1>7 DEF RequestFails, DoNext
<1>8. ASSUME NEW q \in GitRequest, CommitRequest(q) PROVE CopiesKept'
  BY <1>8 DEF CommitRequest, GitdirAfter, CleanupAfter, RequestEnds, DoNext
<1>9. ASSUME NEW q \in GitRequest, CommitLooksFailed(q) PROVE CopiesKept'
  BY <1>9 DEF CommitLooksFailed, GitFault, GitdirAfter, CleanupAfter, DoNext
<1>10. ASSUME NEW q \in GitRequest, UndoCopy(q) PROVE CopiesKept'
  BY <1>10 DEF UndoCopy, DiskUndone, RequestEnds, DoNext
<1>11. ASSUME NEW q \in GitRequest, RequestDies(q) PROVE CopiesKept'
  BY <1>11 DEF RequestDies, GitFault, RequestEnds, DoNext
<1>12. ASSUME NEW c \in Copy, TwoMinutesPass(c) PROVE CopiesKept'
  BY <1>12 DEF TwoMinutesPass
<1>13. ASSUME NEW c \in Copy, CleanupChecks(c) PROVE CopiesKept'
  BY <1>13 DEF CleanupChecks, Unreferenced, PointedTo, Rows
<1>14. ASSUME NEW c \in Copy, CleanupRemoves(c) PROVE CopiesKept'
  BY <1>14 DEF CleanupRemoves
<1>15. ASSUME NEW c \in Copy, CleanupRetried(c) PROVE CopiesKept'
  BY <1>15 DEF CleanupRetried, GitFault
<1>16. ASSUME NEW c \in Copy, CleanupGivesUp(c) PROVE CopiesKept'
  BY <1>16 DEF CleanupGivesUp, GitFault
<1>17. ASSUME UNCHANGED gitVars PROVE CopiesKept'
  BY <1>17
<1>. QED
  BY <1>1, <1>2, <1>3, <1>4, <1>5, <1>6, <1>7, <1>8, <1>9,
     <1>10, <1>11, <1>12, <1>13, <1>14, <1>15, <1>16, <1>17
     DEF GitNext, RequestStep, CleanupStep

\* The inductive part of both theorems.
LEMMA CopiesKeptHolds == GitSpec => []CopiesKept
<1>1. GitInit => CopiesKept
  BY DEF GitInit, CopiesKept, RowHasCopy, CopiesAccountedFor, Rows
<1>. QED
  BY <1>1, GitInvHolds, CopiesStep, PTL DEF GitSpec

\* RowHasCopy (hooks and cleanups of GitService): the copy of a repository that
\* is shown exists, except after a COMMIT whose answer was lost.
THEOREM RowsHaveCopies == GitSpec => []RowHasCopy
<1>1. CopiesKept => RowHasCopy
  BY DEF CopiesKept
<1>. QED
  BY <1>1, CopiesKeptHolds, PTL

\* CopiesAccountedFor (scheduleCleanup, createTenantGitCopy): no directory is
\* forgotten, unless a crash or a failed removal abandoned it.
THEOREM CopiesAreAccountedFor == GitSpec => []CopiesAccountedFor
<1>1. CopiesKept => CopiesAccountedFor
  BY DEF CopiesKept
<1>. QED
  BY <1>1, CopiesKeptHolds, PTL

-----------------------------------------------------------------------------
\* Rows change only when the one request that counted them ends.
LEMMA RoomStep == GitInv /\ RoomForOne /\ [GitNext]_gitVars => RoomForOne'
<1> SUFFICES ASSUME GitTypeOK, LockIsHeld, MadeByStage, RoomForOne, [GitNext]_gitVars PROVE RoomForOne'
  BY DEF GitInv, Ownership
<1> USE GitAssumption
    DEF gitVars, copyVars, requestVars, ghostVars, WorkStage, CleanupStage, GitTypeOK,
        Held, LockIsHeld, MadeByStage, RoomForOne
<1>1. ASSUME NEW q \in GitRequest, NEW x \in Repo, CreateRepo(q, x) PROVE RoomForOne'
  BY <1>1 DEF CreateRepo, Enters, LockIsFree, DoNext
<1>2. ASSUME NEW q \in GitRequest, NEW x \in Repo, FetchRepo(q, x) PROVE RoomForOne'
  BY <1>2 DEF FetchRepo, Enters, LockIsFree, DoNext
<1>3. ASSUME NEW q \in GitRequest, NEW x \in Repo, DeleteRepo(q, x) PROVE RoomForOne'
  BY <1>3 DEF DeleteRepo, Enters, LockIsFree, DoNext
<1>4. ASSUME NEW q \in GitRequest, NEW c \in Copy, AllocateCopy(q, c) PROVE RoomForOne'
  BY <1>4 DEF AllocateCopy, DoNext
<1>5. ASSUME NEW q \in GitRequest, CopyMade(q) \/ SaveRow(q) PROVE RoomForOne'
  BY <1>5 DEF CopyMade, SaveRow, DoNext
<1>6. ASSUME NEW q \in GitRequest, CopyFails(q) PROVE RoomForOne'
  BY <1>6 DEF CopyFails, DoNext
<1>7. ASSUME NEW q \in GitRequest, RequestFails(q) PROVE RoomForOne'
  BY <1>7 DEF RequestFails, DoNext
<1>8. ASSUME NEW q \in GitRequest, CommitRequest(q) PROVE RoomForOne'
  BY <1>8 DEF CommitRequest, GitdirAfter, CleanupAfter, RequestEnds, DoNext
<1>9. ASSUME NEW q \in GitRequest, CommitLooksFailed(q) PROVE RoomForOne'
  BY <1>9 DEF CommitLooksFailed, GitFault, GitdirAfter, CleanupAfter, DoNext
<1>10. ASSUME NEW q \in GitRequest, UndoCopy(q) PROVE RoomForOne'
  BY <1>10 DEF UndoCopy, DiskUndone, RequestEnds, DoNext
<1>11. ASSUME NEW q \in GitRequest, RequestDies(q) PROVE RoomForOne'
  BY <1>11 DEF RequestDies, GitFault, RequestEnds, DoNext
<1>12. ASSUME NEW c \in Copy, TwoMinutesPass(c) PROVE RoomForOne'
  BY <1>12 DEF TwoMinutesPass
<1>13. ASSUME NEW c \in Copy, CleanupChecks(c) PROVE RoomForOne'
  BY <1>13 DEF CleanupChecks, Unreferenced, PointedTo, Rows
<1>14. ASSUME NEW c \in Copy, CleanupRemoves(c) PROVE RoomForOne'
  BY <1>14 DEF CleanupRemoves
<1>15. ASSUME NEW c \in Copy, CleanupRetried(c) PROVE RoomForOne'
  BY <1>15 DEF CleanupRetried, GitFault
<1>16. ASSUME NEW c \in Copy, CleanupGivesUp(c) PROVE RoomForOne'
  BY <1>16 DEF CleanupGivesUp, GitFault
<1>17. ASSUME UNCHANGED gitVars PROVE RoomForOne'
  BY <1>17
<1>. QED
  BY <1>1, <1>2, <1>3, <1>4, <1>5, <1>6, <1>7, <1>8, <1>9,
     <1>10, <1>11, <1>12, <1>13, <1>14, <1>15, <1>16, <1>17
     DEF GitNext, RequestStep, CleanupStep

\* A commit adds a row only where the request had counted one less than the limit.
LEMMA CommitKeepsLimit ==
    ASSUME GitTypeOK, LockIsHeld, RoomForOne, ReposWithinLimit,
           NEW q \in GitRequest, work[q] = "saved", gitdir' = GitdirAfter(q)
    PROVE  ReposWithinLimit'
<1> USE GitAssumption DEF Rows
<1>1. IsFiniteSet(Rows(gitdir)) /\ Cardinality(Rows(gitdir)) \in Nat
  BY FS_Subset, FS_CardinalityType
<1>2. /\ target[q] \in Repo
      /\ previous[q] = gitdir[target[q]]
  BY DEF LockIsHeld, Held
<1>3. CASE previous[q] = NoCopy
  <2>1. Cardinality(Rows(gitdir)) < MaxRepos
    BY <1>3 DEF RoomForOne, Held
  <2>2. Rows(gitdir') \subseteq Rows(gitdir) \cup {target[q]}
    BY <1>2 DEF GitdirAfter, GitTypeOK
  <2>3. /\ IsFiniteSet(Rows(gitdir) \cup {target[q]})
        /\ Cardinality(Rows(gitdir) \cup {target[q]}) \in Nat
        /\ Cardinality(Rows(gitdir) \cup {target[q]}) <= Cardinality(Rows(gitdir)) + 1
    <3>1. /\ IsFiniteSet(Rows(gitdir) \cup {target[q]})
          /\ Cardinality(Rows(gitdir) \cup {target[q]}) =
                IF target[q] \in Rows(gitdir) THEN Cardinality(Rows(gitdir))
                ELSE Cardinality(Rows(gitdir)) + 1
      BY <1>1, FS_AddElement
    <3>. QED
      BY <1>1, <3>1
  <2>4. /\ Cardinality(Rows(gitdir')) \in Nat
        /\ Cardinality(Rows(gitdir')) <= Cardinality(Rows(gitdir) \cup {target[q]})
    BY <2>2, <2>3, FS_Subset, FS_CardinalityType
  <2>. QED
    BY <1>1, <2>1, <2>3, <2>4 DEF ReposWithinLimit
<1>4. CASE previous[q] # NoCopy
  <2>1. Rows(gitdir') \subseteq Rows(gitdir)
    BY <1>2, <1>4 DEF GitdirAfter, GitTypeOK
  <2>2. /\ Cardinality(Rows(gitdir')) \in Nat
        /\ Cardinality(Rows(gitdir')) <= Cardinality(Rows(gitdir))
    BY <1>1, <2>1, FS_Subset, FS_CardinalityType
  <2>. QED
    BY <1>1, <2>2 DEF ReposWithinLimit
<1>. QED
  BY <1>3, <1>4

\* Only a commit changes rows.
LEMMA LimitStep ==
    GitInv /\ RoomForOne /\ ReposWithinLimit /\ [GitNext]_gitVars => ReposWithinLimit'
<1> SUFFICES ASSUME GitTypeOK, LockIsHeld, RoomForOne, ReposWithinLimit, [GitNext]_gitVars
             PROVE ReposWithinLimit'
  BY DEF GitInv, Ownership
<1>1. ASSUME UNCHANGED gitdir PROVE ReposWithinLimit'
  BY <1>1 DEF ReposWithinLimit, Rows
<1>2. ASSUME NEW q \in GitRequest, CommitRequest(q) \/ CommitLooksFailed(q)
      PROVE ReposWithinLimit'
  <2>1. gitdir' = GitdirAfter(q) /\ work[q] = "saved"
    BY <1>2 DEF CommitRequest, CommitLooksFailed
  <2>. QED
    BY <2>1, CommitKeepsLimit
<1>3. ASSUME NEW q \in GitRequest, RequestStep(q) PROVE ReposWithinLimit'
  <2>1. CommitRequest(q) \/ CommitLooksFailed(q) \/ UNCHANGED gitdir
    BY <1>3
    DEF RequestStep, CreateRepo, FetchRepo, DeleteRepo, Enters, AllocateCopy, CopyMade,
        CopyFails, SaveRow, RequestFails, UndoCopy, RequestDies, copyVars
  <2>. QED
    BY <1>1, <1>2, <2>1
<1>4. ASSUME NEW c \in Copy, CleanupStep(c) PROVE ReposWithinLimit'
  BY <1>1, <1>4
  DEF CleanupStep, TwoMinutesPass, CleanupChecks, CleanupRemoves, CleanupRetried,
      CleanupGivesUp
<1>5. ASSUME UNCHANGED gitVars PROVE ReposWithinLimit'
  BY <1>1, <1>5 DEF gitVars, copyVars
<1>. QED
  BY <1>3, <1>4, <1>5 DEF GitNext

\* ReposWithinLimit (createRepo counts under the advisory lock): requests that
\* create repositories at once never take the tenant beyond its limit.
THEOREM LimitHolds == GitSpec => []ReposWithinLimit
<1>1. GitInit => RoomForOne /\ ReposWithinLimit
  <2>1. ASSUME GitInit PROVE Rows(gitdir) = {}
    BY <2>1 DEF GitInit, Rows
  <2>. QED
    BY <2>1, FS_EmptySet, GitAssumption DEF GitInit, RoomForOne, ReposWithinLimit, Held
<1>2. GitInv /\ RoomForOne /\ ReposWithinLimit /\ [GitNext]_gitVars
        => RoomForOne' /\ ReposWithinLimit'
  BY RoomStep, LimitStep
<1>. QED
  BY <1>1, <1>2, GitInvHolds, PTL DEF GitSpec

-----------------------------------------------------------------------------
(***************************************************************************)
(* Proofs about ReleaseRunner, for any invocations, releases, commits,     *)
(* services and number of stops.                                           *)
(*                                                                         *)
(* What run.sh checks before it deploys is a file; what matters is the     *)
(* state of the databases and of docker.  RunInv ties the two together: a  *)
(* receipt exists only while the last migration that was started is the    *)
(* receipt's and has succeeded (ReceiptIsTrue), and a migration runs or is *)
(* left behind only while there is no receipt (NoReceiptMeanwhile).        *)
(***************************************************************************)
\* Whoever is at work, or has left a child at work, holds the lock.
OneAtWork ==
    \A k \in Runner :
        at[k] # "idle" => flock = k /\ release[k] \in Release

\* Who has a migration container waits for it.
ContainerIsWaitedFor ==
    \A k \in Runner : container[k] # "none" => at[k] = "waiting"

\* A migration is started when none is left, and only a runner that waits for
\* one can leave one behind.
OneLeftBehind ==
    /\ \A x, y \in strays : x = y
    /\ \A k \in Runner : at[k] \in {"alone", "waiting", "done"} => strays = {}

\* While a migration runs, or one is left behind, there is no receipt.
NoReceiptMeanwhile ==
    /\ strays # {} => migrationHead = NoRelease
    /\ \A k \in Runner :
          at[k] \in {"receiptGone", "alone", "waiting", "done"} => migrationHead = NoRelease

\* The last migration that was started is x's, and it succeeded.
Migrated(x) == schema = [release |-> x, complete |-> TRUE]

\* A receipt, and a runner beyond its migration, tell the truth about the schema.
ReceiptIsTrue ==
    /\ migrationHead # NoRelease => Migrated(migrationHead)
    /\ \A k \in Runner :
          /\ at[k] = "waiting" => schema.release = release[k]
          /\ container[k] = "succeeded" => Migrated(release[k])
          /\ at[k] \in {"done", "replacing", "checking"} => Migrated(release[k])
          /\ at[k] = "checking" => \A s \in Service : Runs(s, release[k])

\* The order of a release.
Order ==
    /\ OneAtWork
    /\ ContainerIsWaitedFor
    /\ OneLeftBehind
    /\ NoReceiptMeanwhile
    /\ ReceiptIsTrue

\* The inductive invariant of the release runner.
RunInv == ReleaseTypeOK /\ Order

-----------------------------------------------------------------------------
\* Every step keeps every variable in its type.
LEMMA ReleaseTypeStep == RunInv /\ [ReleaseNext]_releaseVars => ReleaseTypeOK'
<1> SUFFICES ASSUME ReleaseTypeOK, OneAtWork, ContainerIsWaitedFor, [ReleaseNext]_releaseVars
             PROVE  ReleaseTypeOK'
  BY DEF RunInv, Order
<1> USE ReleaseAssumption
    DEF releaseVars, headVars, runnerVars, dockerVars, RunnerStage, ReleaseTypeOK, OneAtWork,
        ContainerIsWaitedFor
<1>1. ASSUME NEW k \in Runner, NEW c \in SourceCommit, BeginPrepare(k, c) PROVE ReleaseTypeOK'
  BY <1>1 DEF BeginPrepare, Begins, LockFree
<1>2. ASSUME NEW k \in Runner, BeginMigrate(k) \/ BeginDeploy(k) PROVE ReleaseTypeOK'
  <2>1. CASE BeginMigrate(k)
    BY <2>1 DEF BeginMigrate, Begins, LockFree
  <2>2. CASE BeginDeploy(k)
    BY <2>2 DEF BeginDeploy, Begins, LockFree
  <2>. QED
    BY <1>2, <2>1, <2>2
<1>3. ASSUME NEW k \in Runner, PointsToRelease(k) PROVE ReleaseTypeOK'
  BY <1>3 DEF PointsToRelease, Steps
<1>4. ASSUME NEW k \in Runner, EndPrepare(k) PROVE ReleaseTypeOK'
  BY <1>4 DEF EndPrepare, Forgets
<1>5. ASSUME NEW k \in Runner, PutReceiptAside(k) PROVE ReleaseTypeOK'
  BY <1>5 DEF PutReceiptAside, ReceiptPutAside, Steps
<1>6. ASSUME NEW k \in Runner, LooksForOthers(k) PROVE ReleaseTypeOK'
  BY <1>6 DEF LooksForOthers, NoOtherMigration, Steps
<1>7. ASSUME NEW k \in Runner, JobStarts(k) PROVE ReleaseTypeOK'
  BY <1>7 DEF JobStarts
<1>8. ASSUME NEW k \in Runner, JobExits(k) PROVE ReleaseTypeOK'
  BY <1>8 DEF JobExits
<1>9. ASSUME NEW k \in Runner, JobAccepted(k) PROVE ReleaseTypeOK'
  BY <1>9 DEF JobAccepted, Steps
<1>10. ASSUME NEW k \in Runner, EndMigrate(k) PROVE ReleaseTypeOK'
  BY <1>10 DEF EndMigrate, Forgets
<1>11. ASSUME NEW k \in Runner, BeginReplacing(k) PROVE ReleaseTypeOK'
  BY <1>11 DEF BeginReplacing, ReceiptMatches, Steps
<1>12. ASSUME NEW k \in Runner, NEW s \in Service, ReplaceService(k, s) PROVE ReleaseTypeOK'
  BY <1>12 DEF ReplaceService, UpToDate
<1>13. ASSUME NEW k \in Runner, AllUp(k) PROVE ReleaseTypeOK'
  BY <1>13 DEF AllUp, Steps, UpToDate
<1>14. ASSUME NEW k \in Runner, NEW n \in 1..2, NEW s \in Service, HealthCheck(k, n, s) PROVE ReleaseTypeOK'
  BY <1>14 DEF HealthCheck
<1>15. ASSUME NEW k \in Runner, EndDeploy(k) PROVE ReleaseTypeOK'
  BY <1>15 DEF EndDeploy, Forgets
<1>16. ASSUME NEW k \in Runner, Fails(k) PROVE ReleaseTypeOK'
  BY <1>16 DEF Fails, LeftBehind, Forgets
<1>17. ASSUME NEW k \in Runner, Killed(k) PROVE ReleaseTypeOK'
  <2>1. CASE at[k] \in {"alone", "replacing"}
    BY <1>17, <2>1 DEF Killed, Stop
  <2>2. CASE at[k] \notin {"alone", "replacing"}
    BY <1>17, <2>2 DEF Killed, Stop, LeftBehind, Forgets
  <2>. QED
    BY <2>1, <2>2
<1>18. ASSUME NEW k \in Runner, ChildEnds(k) PROVE ReleaseTypeOK'
  BY <1>18 DEF ChildEnds, LeftBehind, Forgets
<1>19. ASSUME NEW x \in Release, StrayExits(x) PROVE ReleaseTypeOK'
  BY <1>19 DEF StrayExits
<1>20. ASSUME NEW x \in Release, InputsChange(x) PROVE ReleaseTypeOK'
  BY <1>20 DEF InputsChange, Stop
<1>21. ASSUME NEW s \in Service, ServiceFlaps(s) PROVE ReleaseTypeOK'
  BY <1>21 DEF ServiceFlaps
<1>22. ASSUME Reboot PROVE ReleaseTypeOK'
  BY <1>22 DEF Reboot, Stop
<1>23. ASSUME UNCHANGED releaseVars PROVE ReleaseTypeOK'
  BY <1>23
<1>. QED
  BY <1>1, <1>2, <1>3, <1>4, <1>5, <1>6, <1>7, <1>8,
     <1>9, <1>10, <1>11, <1>12, <1>13, <1>14, <1>15, <1>16,
     <1>17, <1>18, <1>19, <1>20, <1>21, <1>22, <1>23
     DEF ReleaseNext, RunnerStep

\* The lock keeps others out from the removal of a receipt to its replacement,
\* and from its check to the last service.
LEMMA OrderStep == RunInv /\ [ReleaseNext]_releaseVars => Order'
<1> SUFFICES ASSUME RunInv, [ReleaseNext]_releaseVars PROVE Order'
  OBVIOUS
<1> USE ReleaseAssumption
    DEF releaseVars, headVars, runnerVars, dockerVars, RunnerStage, ReleaseTypeOK, RunInv, Order, OneAtWork,
        ContainerIsWaitedFor, OneLeftBehind, NoReceiptMeanwhile, ReceiptIsTrue, Migrated, Runs
<1>1. ASSUME NEW k \in Runner, NEW c \in SourceCommit, BeginPrepare(k, c) PROVE Order'
  BY <1>1 DEF BeginPrepare, Begins, LockFree
<1>2. ASSUME NEW k \in Runner, BeginMigrate(k) \/ BeginDeploy(k) PROVE Order'
  BY <1>2 DEF BeginMigrate, BeginDeploy, Begins, LockFree
<1>3. ASSUME NEW k \in Runner, PointsToRelease(k) PROVE Order'
  BY <1>3 DEF PointsToRelease, Steps
<1>4. ASSUME NEW k \in Runner, EndPrepare(k) PROVE Order'
  BY <1>4 DEF EndPrepare, Forgets
<1>5. ASSUME NEW k \in Runner, PutReceiptAside(k) PROVE Order'
  BY <1>5 DEF PutReceiptAside, ReceiptPutAside, Steps
<1>6. ASSUME NEW k \in Runner, LooksForOthers(k) PROVE Order'
  BY <1>6 DEF LooksForOthers, NoOtherMigration, Steps
<1>7. ASSUME NEW k \in Runner, JobStarts(k) PROVE Order'
  BY <1>7 DEF JobStarts
<1>8. ASSUME NEW k \in Runner, JobExits(k) PROVE Order'
  BY <1>8 DEF JobExits
<1>9. ASSUME NEW k \in Runner, JobAccepted(k) PROVE Order'
  BY <1>9 DEF JobAccepted, Steps
<1>10. ASSUME NEW k \in Runner, EndMigrate(k) PROVE Order'
  <2>1. strays = {}
    BY <1>10 DEF EndMigrate
  <2>. QED
    BY <1>10, <2>1 DEF EndMigrate, Forgets
<1>11. ASSUME NEW k \in Runner, BeginReplacing(k) PROVE Order'
  BY <1>11 DEF BeginReplacing, ReceiptMatches, Steps
<1>12. ASSUME NEW k \in Runner, NEW s \in Service, ReplaceService(k, s) PROVE Order'
  BY <1>12 DEF ReplaceService, UpToDate
<1>13. ASSUME NEW k \in Runner, AllUp(k) PROVE Order'
  BY <1>13 DEF AllUp, Steps, UpToDate
<1>14. ASSUME NEW k \in Runner, NEW n \in 1..2, NEW s \in Service, HealthCheck(k, n, s) PROVE Order'
  BY <1>14 DEF HealthCheck
<1>15. ASSUME NEW k \in Runner, EndDeploy(k) PROVE Order'
  BY <1>15 DEF EndDeploy, Forgets
<1>16. ASSUME NEW k \in Runner, Fails(k) PROVE Order'
  BY <1>16 DEF Fails, LeftBehind, Forgets
<1>17. ASSUME NEW k \in Runner, Killed(k) PROVE Order'
  <2>1. CASE at[k] \in {"alone", "replacing"}
    BY <1>17, <2>1 DEF Killed, Stop
  <2>2. CASE at[k] \notin {"alone", "replacing"}
    <3>1. /\ strays' = LeftBehind(k) /\ Forgets(k)
          /\ UNCHANGED <<headVars, running, schema>>
      BY <1>17, <2>2 DEF Killed
    <3>2. (OneAtWork /\ ContainerIsWaitedFor)'
      BY <3>1 DEF Forgets
    <3>3. OneLeftBehind'
      BY <3>1 DEF Forgets, LeftBehind
    <3>4. (NoReceiptMeanwhile /\ ReceiptIsTrue)'
      BY <3>1 DEF Forgets, LeftBehind
    <3>. QED
      BY <3>2, <3>3, <3>4
  <2>. QED
    BY <2>1, <2>2
<1>18. ASSUME NEW k \in Runner, ChildEnds(k) PROVE Order'
  BY <1>18 DEF ChildEnds, LeftBehind, Forgets
<1>19. ASSUME NEW x \in Release, StrayExits(x) PROVE Order'
  BY <1>19 DEF StrayExits
<1>20. ASSUME NEW x \in Release, InputsChange(x) PROVE Order'
  BY <1>20 DEF InputsChange, Stop
<1>21. ASSUME NEW s \in Service, ServiceFlaps(s) PROVE Order'
  BY <1>21 DEF ServiceFlaps
<1>22. ASSUME Reboot PROVE Order'
  BY <1>22 DEF Reboot, Stop
<1>23. ASSUME UNCHANGED releaseVars PROVE Order'
  BY <1>23
<1>. QED
  BY <1>1, <1>2, <1>3, <1>4, <1>5, <1>6, <1>7, <1>8,
     <1>9, <1>10, <1>11, <1>12, <1>13, <1>14, <1>15, <1>16,
     <1>17, <1>18, <1>19, <1>20, <1>21, <1>22, <1>23
     DEF ReleaseNext, RunnerStep

\* The inductive invariant holds in every state.
LEMMA RunInvHolds == ReleaseSpec => []RunInv
<1>1. ReleaseInit => RunInv
  BY ReleaseAssumption
  DEF ReleaseInit, RunInv, ReleaseTypeOK, Order, OneAtWork, ContainerIsWaitedFor,
      OneLeftBehind, NoReceiptMeanwhile, ReceiptIsTrue, RunnerStage
<1>2. RunInv /\ [ReleaseNext]_releaseVars => RunInv'
  BY ReleaseTypeStep, OrderStep DEF RunInv
<1>. QED
  BY <1>1, <1>2, PTL DEF ReleaseSpec

\* Every variable keeps its type.
THEOREM ReleaseTypeCorrect == ReleaseSpec => []ReleaseTypeOK
<1>1. RunInv => ReleaseTypeOK
  BY DEF RunInv
<1>. QED
  BY <1>1, RunInvHolds, PTL

-----------------------------------------------------------------------------
\* OneMigration (the lock and "docker container ls" of migrate): never two
\* migrations of the databases at once, whatever a killed runner left behind.
THEOREM NeverTwoMigrations == ReleaseSpec => []OneMigration
<1>1. ASSUME RunInv PROVE OneMigration
  <2> USE <1>1 DEF RunInv, Order
  <2>1. \A k \in ActiveMigrations : strays = {} /\ flock = k
    BY DEF ActiveMigrations, ContainerIsWaitedFor, OneLeftBehind, OneAtWork
  <2>2. Cardinality({}) = 0
    BY FS_EmptySet
  <2>3. ASSUME NEW y PROVE Cardinality({y}) = 1
    BY FS_Singleton
  <2>4. CASE strays = {} /\ ActiveMigrations = {}
    BY <2>2, <2>4 DEF OneMigration
  <2>5. ASSUME strays = {}, NEW k \in ActiveMigrations PROVE OneMigration
    <3>1. ActiveMigrations = {k}
      BY <2>1, <2>5
    <3>2. Cardinality(ActiveMigrations) = 1 /\ Cardinality(strays) = 0
      BY <2>2, <2>3, <2>5, <3>1, Zenon
    <3>. QED
      BY <3>2 DEF OneMigration
  <2>6. ASSUME NEW x \in strays PROVE OneMigration
    <3>1. strays = {x} /\ ActiveMigrations = {}
      BY <2>1, <2>6 DEF OneLeftBehind
    <3>2. Cardinality(ActiveMigrations) = 0 /\ Cardinality(strays) = 1
      BY <2>2, <2>3, <3>1, Zenon
    <3>. QED
      BY <3>2 DEF OneMigration
  <2>. QED
    BY <2>4, <2>5, <2>6
<1>. QED
  BY <1>1, RunInvHolds, PTL

\* MigratedBeforeDeploy ("Migration receipt is missing or stale" of deploy):
\* services are only replaced on databases as their own migration left them.
THEOREM DeployFollowsMigration == ReleaseSpec => []MigratedBeforeDeploy
<1>1. RunInv => MigratedBeforeDeploy
  BY DEF RunInv, Order, ReceiptIsTrue, Migrated, MigratedBeforeDeploy
<1>. QED
  BY <1>1, RunInvHolds, PTL

\* DeployedHeadIsTrue ("compose up --wait" and the lock): the deployed head is
\* written only while every service runs a container defined as in that release,
\* on the databases of its migration.
THEOREM HeadIsTrue == ReleaseSpec => DeployedHeadIsTrue
<1>1. ASSUME RunInv, [ReleaseNext]_releaseVars, deployedHead' # deployedHead
      PROVE  /\ \A s \in Service : Runs(s, deployedHead')
             /\ schema = [release |-> deployedHead', complete |-> TRUE]
  <2>1. PICK k \in Runner : EndDeploy(k)
    BY <1>1
    DEF ReleaseNext, RunnerStep, releaseVars, headVars, BeginPrepare, BeginMigrate,
        BeginDeploy, Begins, PointsToRelease, EndPrepare, PutReceiptAside, LooksForOthers,
        JobStarts, JobExits, JobAccepted, EndMigrate, BeginReplacing, ReplaceService, AllUp,
        HealthCheck, Fails, Killed, ChildEnds, StrayExits, InputsChange, ServiceFlaps, Reboot
  <2>. QED
    BY <1>1, <2>1 DEF EndDeploy, RunInv, Order, ReceiptIsTrue, Migrated, Runs
<1>. QED
  BY <1>1, RunInvHolds, PTL DEF ReleaseSpec, DeployedHeadIsTrue
==============================================================================
