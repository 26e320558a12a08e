------------------------------ MODULE MCIntake -------------------------------
(***************************************************************************)
(* One customer; the handlers of the other modules lose the lead.          *)
(***************************************************************************)
EXTENDS Intake

\* The box left alone, with an address; the box ticked, without.
TwoForms == {<<FALSE, TRUE>>, <<TRUE, FALSE>>}

\* A listing site's mail, and a website's that has a mobile number, which is not read.
TwoMails == {{"Customer Name:", "Phone:", "Email:"}, {"Customer:", "Mobile:", "Email:"}}

\* Whichever parser takes a mail (module EmailParsers), over every set of labels.
ASSUME EveryNumberIsRead == NumberIsRead

EngagedAndLost == {<<"ENGAGED", "LOST">>}
=============================================================================
