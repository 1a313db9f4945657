----------------------------- MODULE MCRecords ------------------------------
(***************************************************************************)
(* What is kept: sign-in links and sessions, a round's questions, answers, *)
(* journal, diary and dump, and the data directory.  They share no state   *)
(* these modules keep, so TLC explores the union of the five, one part per *)
(* behaviour, and not their product.                                       *)
(***************************************************************************)
EXTENDS SignIn, Questions, Answers, Keepsakes, DataDir

VARIABLE part

recordVars == <<signInVars, questionVars, answerVars, keepsakeVars, vars, part>>

RecordsInit ==
    /\ part \in {"signin", "questions", "answers", "keepsakes", "datadir"}
    /\ SignInInit
    /\ part # "signin" => active = [p \in People |-> TRUE]
    /\ QuestionsInit /\ AnswersInit /\ KeepsakesInit /\ Init

RecordsNext ==
    \/ /\ part = "signin" /\ SignInNext
       /\ UNCHANGED <<questionVars, answerVars, keepsakeVars, vars, part>>
    \/ /\ part = "questions" /\ QuestionsNext
       /\ UNCHANGED <<signInVars, answerVars, keepsakeVars, vars, part>>
    \/ /\ part = "answers" /\ AnswersNext
       /\ UNCHANGED <<signInVars, questionVars, keepsakeVars, vars, part>>
    \/ /\ part = "keepsakes" /\ KeepsakesNext
       /\ UNCHANGED <<signInVars, questionVars, answerVars, vars, part>>
    \/ /\ part = "datadir" /\ Next
       /\ UNCHANGED <<signInVars, questionVars, answerVars, keepsakeVars, part>>

RecordsSpec == RecordsInit /\ [][RecordsNext]_recordVars

\* The two requests of the journal, the diary and the dump are alike.
JobSymmetry == Permutations(Jobs)

\* Links, sessions, questions, answers, blocks, pages, files and the data
\* directory keep the values their tables and handlers allow.
RecordsTypeOK ==
    CASE part = "signin" -> SignInTypeOK
      [] part = "questions" -> QuestionsTypeOK
      [] part = "answers" -> AnswersTypeOK
      [] part = "keepsakes" -> KeepsakesTypeOK
      [] part = "datadir" -> TypeOK
=============================================================================
