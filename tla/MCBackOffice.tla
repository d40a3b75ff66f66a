---------------------------- MODULE MCBackOffice ----------------------------
(***************************************************************************)
(* Two components of the back office: users with their roles, and VAT      *)
(* reports. They share no state, so a behaviour has steps of one of them.  *)
(***************************************************************************)
EXTENDS Users, VatReport, TLC

VARIABLE subject

mcVars == <<userVars, vatVars, subject>>

\* One country for each policy of the VAT rates and each length of a period; a month has
\* one day.
MCCountries ==
    {[period |-> 2, policy |-> "on-day", deadline |-> 1, yearThreshold |-> 3,
      worldThreshold |-> 0],
     [period |-> 3, policy |-> "last-day", deadline |-> 0, yearThreshold |-> 0,
      worldThreshold |-> 0],
     [period |-> 1, policy |-> "avg-month", deadline |-> 0, yearThreshold |-> 0,
      worldThreshold |-> 4]}

\* Requests and Payments are given the same model values, and so are RoleIds and
\* VatReports: the group of the symmetry stays small.
MCSymmetry == Permutations(Requests) \cup Permutations(RoleIds)

\* Nobody there yet: where VAT reports take the steps.
NoUsers ==
    /\ registered = FALSE /\ roles = [id \in RoleIds |-> Absent] /\ grants = {}
    /\ profiles = [u \in Users |-> Absent] /\ invites = {} /\ letters = {}
    /\ r = [p \in Requests |-> Idle] /\ overlaps = 0 /\ userFailures = 0

MCInit ==
    /\ subject \in {"users", "vat"}
    /\ IF subject = "users" THEN UsersInit ELSE NoUsers
    /\ VatInit /\ (subject = "users" => country.policy = "on-day")

\* With a failed call there is at most one payment: what a failure leaves undecided is a
\* report, whatever its amounts.
FailedSmall == vatFailures' > 0 => Cardinality({x \in Payments : payments'[x] # NoRecord}) <= 1

MCNext ==
    \/ subject = "users" /\ UsersNext /\ UNCHANGED <<vatVars, subject>>
    \/ subject = "vat" /\ VatNext /\ FailedSmall /\ UNCHANGED <<userVars, subject>>

MCSpec == MCInit /\ [][MCNext]_mcVars

\* Every variable of the back office has its type.
BackOfficeTypesOK == UsersTypeOK /\ VatTypeOK
=============================================================================
