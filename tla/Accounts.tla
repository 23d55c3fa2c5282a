------------------------------ MODULE Accounts ------------------------------
(***************************************************************************)
(* What onboarding promises a person, without user ids, table rows and     *)
(* requests: joining opens a review, an approval closes it and makes them  *)
(* active, and neither is ever taken back. Only who is active is let in.   *)
(***************************************************************************)
CONSTANTS Persons, Browsers

VARIABLES
  known,     \* the persons with an account
  active,    \* those who may use the application
  open,      \* those whose review the reviewers see
  approved,  \* those whose review was approved
  signedIn,  \* pairs of a browser and the person signed in there
  letIn      \* those pairs whose session lets the person in

accountVars == <<known, active, open, approved, signedIn, letIn>>

\* The pairs in S of other browsers.
Elsewhere(b, S) == {s \in S : s[1] # b}

\* The persons from before there were reviews are active.
Init ==
  /\ active \in SUBSET Persons
  /\ known = active
  /\ open = {} /\ approved = {}
  /\ signedIn = {} /\ letIn = {}

Join(p) ==
  /\ p \notin known
  /\ known' = known \cup {p}
  /\ open' = open \cup {p}
  /\ UNCHANGED <<active, approved, signedIn, letIn>>

\* A comment opens a review for a person who had none.
Comment(p) ==
  /\ p \in known \ approved
  /\ open' = open \cup {p}
  /\ UNCHANGED <<known, active, approved, signedIn, letIn>>

Approve(p) ==
  /\ p \in known
  /\ active' = active \cup {p}
  /\ open' = open \ {p}
  /\ approved' = approved \cup (open \cap {p})
  /\ UNCHANGED <<known, signedIn, letIn>>

\* A session may be behind: somebody active need not be let in at once.
SignIn(b, p) ==
  /\ p \in known
  /\ signedIn' = Elsewhere(b, signedIn) \cup {<<b, p>>}
  /\ \/ letIn' = Elsewhere(b, letIn)
     \/ p \in active /\ letIn' = Elsewhere(b, letIn) \cup {<<b, p>>}
  /\ UNCHANGED <<known, active, open, approved>>

SignOut(b) ==
  /\ signedIn' = Elsewhere(b, signedIn)
  /\ letIn' = Elsewhere(b, letIn)
  /\ UNCHANGED <<known, active, open, approved>>

Next ==
  \/ \E p \in Persons : Join(p) \/ Comment(p) \/ Approve(p)
  \/ \E b \in Browsers, p \in Persons : SignIn(b, p)
  \/ \E b \in Browsers : SignOut(b)

Spec == Init /\ [][Next]_accountVars

=============================================================================
