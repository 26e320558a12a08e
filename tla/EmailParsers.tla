---------------------------- MODULE EmailParsers -----------------------------
(***************************************************************************)
(* What the e-mail intake reads in a mail that is no reply                 *)
(* (app/adapters/intake/email_parsers): five parsers are asked in turn,    *)
(* each knows its mails by some of the labels, and reads the telephone     *)
(* number and the address behind others.                                   *)
(*                                                                         *)
(* A mail is the set of labels in it that are followed by a usable value,  *)
(* with "cars.com" for a mention of the site and "address" for an address  *)
(* that no label announces.                                                *)
(***************************************************************************)
EXTENDS Naturals, Sequences, FiniteSetsExt

NumberLabels  == {"Phone:", "Phone Number:", "Mobile:"}
AddressLabels == {"Email:", "Email Address:", "E-mail:"}
NameLabels    == {"Customer Name:", "Name:"}
Labels == NumberLabels \cup AddressLabels \cup NameLabels \cup {"Customer:", "cars.com", "address"}

\* A parser: the labels it knows its mails by (any mail, if it has none), those it
\* reads, and whether a name is enough for it.
Parser(knows, phone, email, nameIsEnough) ==
  [knows |-> knows, phone |-> phone, email |-> email, nameIsEnough |-> nameIsEnough]

\* Mutated form of AutoTrader: "Mobile:" is what is read.
AutoTraderMobile == Parser({"Customer Name:", "Customer:"}, {"Mobile:"}, {"Email:"}, FALSE)

AutoTrader == Parser({"Customer Name:", "Customer:"}, {"Phone:"}, {"Email:"}, FALSE)

\* Its stock number is left out, as are all the parsers' vehicles.
CarGurus == Parser({"Customer Name:"}, {"Phone:"}, {"Email:"}, FALSE)

CarsCom == Parser({"cars.com"}, {"Phone:", "Phone Number:"}, {"Email:", "Email Address:"}, FALSE)

\* "Customer Name:" contains "Name:".
DealerWebsiteForm ==
  Parser(NameLabels \cup {"Phone:", "Email:", "E-mail:"}, NumberLabels, AddressLabels, TRUE)

\* An address is looked for in the whole mail only if nothing else was found.
Generic == Parser({}, {"Phone:"}, {"Email:"}, FALSE)

Has(mail, labels) == mail \cap labels # {}

NoLead == [phone |-> FALSE, email |-> FALSE, known |-> FALSE]

Reads(parser, mail) ==
  LET phone == Has(mail, parser.phone)
      email == Has(mail, parser.email)
      name  == Has(mail, NameLabels)
      any   == parser = Generic /\ ~phone /\ ~email /\ ~name /\ Has(mail, AddressLabels \cup {"address"})
  IN  IF /\ parser.knows # {} => Has(mail, parser.knows)
         /\ phone \/ email \/ any \/ (parser.nameIsEnough /\ name)
      THEN [phone |-> phone, email |-> email \/ any, known |-> TRUE] ELSE NoLead

Parsers == <<AutoTrader, CarGurus, CarsCom, DealerWebsiteForm, Generic>>

\* parse_email: the first parser that returns a lead.
ParseEmail(mail) ==
  LET found == {i \in DOMAIN Parsers : Reads(Parsers[i], mail).known}
  IN  IF found = {} THEN NoLead ELSE Reads(Parsers[Min(found)], mail)
-----------------------------------------------------------------------------
(***************************************************************************)
(* Whichever parser takes a mail, and whichever other labels are in it, a  *)
(* number after "Phone:" and an address after "Email:" are read; a number  *)
(* with another label is lost only if the mail also names a "Customer" or  *)
(* has none of the labels of a website's form.                             *)
(***************************************************************************)
NumberIsRead ==
  \A mail \in SUBSET Labels :
    LET lead == ParseEmail(mail)
    IN  /\ "Phone:" \in mail => lead.phone
        /\ "Email:" \in mail => lead.email
        /\ Has(mail, NumberLabels) /\ ~lead.phone
             => \/ Has(mail, AutoTrader.knows) /\ lead.email
                \/ "cars.com" \in mail /\ lead.email
                \/ ~Has(mail, DealerWebsiteForm.knows)

(***************************************************************************)
(* "CarGurus lead notification emails typically follow: Customer Name ..." *)
(* (cargurus.py:3-5): AutoTrader's parser, which is asked before, knows    *)
(* the same mails, so this one never takes any.                            *)
(***************************************************************************)
CarGurusIsAsked ==
  \E mail \in SUBSET Labels : Reads(CarGurus, mail).known /\ ~Reads(AutoTrader, mail).known
=============================================================================
