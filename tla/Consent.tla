------------------------------ MODULE Consent -------------------------------
(***************************************************************************)
(* The consent log (ConsentLog) and what the code reads from it.  A log is *)
(* a sequence of rows in order of created_at; a row's lead is 0 when the   *)
(* column is NULL.  "phone" holds a telephone number, or an e-mail address *)
(* for an opt-out by e-mail.                                               *)
(***************************************************************************)
EXTENDS Naturals, Sequences, FiniteSets

Actions == {"granted", "opted_out", "re_granted", "deleted"}

\* Mutated form of Entry: the word the reports use for an opt-out.
EntryMisspelt(phone, action, lead) ==
  [phone |-> phone, action |-> IF action = "opted_out" THEN "opt_out" ELSE action, lead |-> lead]

Entry(phone, action, lead) == [phone |-> phone, action |-> action, lead |-> lead]

\* Mutated form of OptedOut: one re_granted row ever is enough.
OptedOutEver(log, phone) ==
  /\ \E i \in DOMAIN log : log[i].phone = phone /\ log[i].action = "opted_out"
  /\ ~\E i \in DOMAIN log : log[i].phone = phone /\ log[i].action = "re_granted"

\* _is_opted_out, _email_has_opted_out and the webhook's own query: no re_granted
\* row is newer than the newest opted_out row.
OptedOut(log, phone) ==
  \E i \in DOMAIN log :
    /\ log[i].phone = phone /\ log[i].action = "opted_out"
    /\ \A j \in i + 1..Len(log) : ~(log[j].phone = phone /\ log[j].action = "re_granted")

\* The voice webhook: any opt-out at all.
EverOptedOut(log, phone) ==
  \E i \in DOMAIN log : log[i].phone = phone /\ log[i].action = "opted_out"

\* _has_consent of a lead without the consent flag, and what _log_consent asks
\* before it adds a row.
Granted(log, phone, actions) ==
  \E i \in DOMAIN log : log[i].phone = phone /\ log[i].action \in actions

\* The rows that are left when those of the leads in S are deleted, in their order.
\* (SelectSeq would do; nothing could be proved of it.)
WithoutLeads(log, S) ==
  LET kept    == {i \in DOMAIN log : log[i].lead \notin S}
      Rank(i) == Cardinality({j \in kept : j <= i})
  IN  [k \in 1..Cardinality(kept) |-> log[CHOOSE i \in kept : Rank(i) = k]]
=============================================================================
