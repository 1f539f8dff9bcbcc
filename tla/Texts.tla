------------------------------- MODULE Texts --------------------------------
(***************************************************************************)
(* app/notify/__init__.py: text messages to the customer of one A/S        *)
(* ticket.  A request reads the ticket, the log and the settings in one    *)
(* transaction, calls the provider outside of any, and records the result  *)
(* in another.  Wordings, prices in the text and log fields are left out.  *)
(***************************************************************************)
EXTENDS Naturals, FiniteSets

CONSTANTS
  Events,      \* the stages a text belongs to, and the forms staff wrote
  Texters,     \* requests and the tracker's hooks
  DailyCap,    \* texts a day that really go out
  MaxRounds    \* bound: texts of one event

VARIABLES
  smsLog,     \* sms_log of the ticket, by event and round: "none", "sent" or "simulated"
  today,      \* rows 'sent' of today, over all tickets
  dropped,    \* the ticket is cancelled
  on,         \* events whose automatic text is on
  gate,       \* what a real sending takes: armed, key and sender, tested on this machine
  night,      \* the quiet hours
  texting,    \* the requests in flight
  got         \* history: texts the customer received

textVars == <<smsLog, today, dropped, on, gate, night, texting, got>>

Rounds == 1..MaxRounds
Gates == [armed : BOOLEAN, keys : BOOLEAN, tested : BOOLEAN]
NotTexting == [at |-> "idle", event |-> CHOOSE e \in Events : TRUE, round |-> 1, force |-> FALSE,
               late |-> FALSE, full |-> FALSE, open |-> FALSE, ok |-> FALSE]

TextsOK ==
  /\ smsLog \in [Events -> [Rounds -> {"none", "sent", "simulated"}]]
  /\ today \in Nat /\ {dropped, night} \subseteq BOOLEAN /\ on \subseteq Events
  /\ gate \in Gates
  /\ \A p \in Texters : texting[p].at \in {"idle", "read", "sending", "answered"}
  /\ got \in [Events -> Nat]

\* the rows of (ticket, event) that count as told
Told(e) == {k \in Rounds : smsLog[e][k] # "none"}
-----------------------------------------------------------------------------
\* notify_ticket, the transaction that looks: the trigger of a stage, or a person (manual, who
\* may ask for one more and for the night)
LookUp(p, e, manual, force, late) ==
  /\ texting[p] = NotTexting
  /\ ~dropped
  /\ e \in on \/ force \/ manual
  /\ Told(e) # {} => force
  /\ Cardinality(Told(e)) < MaxRounds
  /\ texting' = [texting EXCEPT ![p] =
       [at |-> "read", event |-> e, round |-> Cardinality(Told(e)) + 1, force |-> force,
        late |-> late, full |-> today >= DailyCap,
        open |-> gate.armed /\ gate.keys /\ gate.tested, ok |-> FALSE]]
  /\ UNCHANGED <<smsLog, today, dropped, on, gate, night, got>>

\* the text is incomplete, the number cannot get texts, it is night or the day's limit is
\* reached; what is recorded of it counts for nothing
Skip(p) ==
  LET s == texting[p] IN
  /\ s.at = "read"
  /\ texting' = [texting EXCEPT ![p] = NotTexting]
  /\ UNCHANGED <<smsLog, today, dropped, on, gate, night, got>>

GoOut(p) ==
  LET s == texting[p] IN
  /\ s.at = "read" /\ s.open
  /\ ~night \/ s.late
  /\ ~s.full
  /\ texting' = [texting EXCEPT ![p].at = "sending"]
  /\ UNCHANGED <<smsLog, today, dropped, on, gate, night, got>>

\* send_sms: the provider takes the text or not, and its answer may be lost
Provider(p, taken, heard) ==
  LET s == texting[p] IN
  /\ s.at = "sending"
  /\ got' = [got EXCEPT ![s.event] = IF taken THEN @ + 1 ELSE @]
  /\ texting' = [texting EXCEPT ![p].at = "answered", ![p].ok = taken /\ heard]
  /\ UNCHANGED <<smsLog, today, dropped, on, gate, night>>

\* idx_sms_once: a second 'sent' or 'simulated' row of the round is refused, and the error is
\* swallowed because the text is out already (_record)
Logged(p, said) ==
  LET s == texting[p]
      new == smsLog[s.event][s.round] = "none"
  IN /\ smsLog' = IF new THEN [smsLog EXCEPT ![s.event][s.round] = said] ELSE smsLog
     /\ today' = IF new /\ said = "sent" THEN today + 1 ELSE today
     /\ texting' = [texting EXCEPT ![p] = NotTexting]
     /\ UNCHANGED <<dropped, on, gate, night, got>>

Simulate(p) == texting[p].at = "read" /\ ~texting[p].open /\ Logged(p, "simulated")
LogSent(p)  == texting[p].at = "answered" /\ texting[p].ok /\ Logged(p, "sent")

\* 'failed' counts for nothing: the same text may be sent again
LogFailed(p) ==
  /\ texting[p].at = "answered" /\ ~texting[p].ok
  /\ texting' = [texting EXCEPT ![p] = NotTexting]
  /\ UNCHANGED <<smsLog, today, dropped, on, gate, night, got>>
-----------------------------------------------------------------------------
\* save_as_sms_templates changes the events and nothing else of the settings
SaveTemplates(S) == on' = S /\ UNCHANGED <<smsLog, today, dropped, gate, night, texting, got>>

\* the settings screen arms the sending or takes its key
SaveGate(g) ==
  /\ g.tested = gate.tested
  /\ gate' = g
  /\ UNCHANGED <<smsLog, today, dropped, on, night, texting, got>>

\* sms_test: a text to the owner's own number opens the gate of this machine; it counts
TestText ==
  /\ gate.keys
  /\ gate' = [gate EXCEPT !.tested = TRUE]
  /\ today' = today + 1
  /\ UNCHANGED <<smsLog, dropped, on, night, texting, got>>

DropTicket == dropped' = TRUE /\ UNCHANGED <<smsLog, today, on, gate, night, texting, got>>
Clock(dark) ==
  /\ night' = dark /\ today' = IF dark THEN today ELSE 0
  /\ UNCHANGED <<smsLog, dropped, on, gate, texting, got>>

TextNext ==
  \/ \E p \in Texters :
       \/ \E e \in Events, manual, force, late \in BOOLEAN : LookUp(p, e, manual, force, late)
       \/ Skip(p) \/ GoOut(p) \/ Simulate(p) \/ LogSent(p) \/ LogFailed(p)
       \/ \E taken, heard \in BOOLEAN : Provider(p, taken, heard)
  \/ \E S \in SUBSET Events : SaveTemplates(S)
  \/ \E g \in Gates : SaveGate(g)
  \/ (today < DailyCap /\ TestText) \/ DropTicket
  \/ \E dark \in BOOLEAN : Clock(dark)

\* manual and force need a person; the settings are as they begin
TextInit ==
  /\ smsLog = [e \in Events |-> [k \in Rounds |-> "none"]]
  /\ today = 0 /\ dropped = FALSE /\ on = Events /\ night = FALSE
  /\ gate = [armed |-> FALSE, keys |-> FALSE, tested |-> FALSE]
  /\ texting = [p \in Texters |-> NotTexting]
  /\ got = [e \in Events |-> 0]
-----------------------------------------------------------------------------
\* A customer gets the text of a stage once, unless somebody asked for one more, also when two
\* requests send at the same time (the head of notify: the UNIQUE rule of sms_log sees to it)
OneTextEach ==
  [][\A p \in Texters : texting[p].at = "sending" /\ ~texting[p].force
       /\ got'[texting[p].event] > got[texting[p].event] => got[texting[p].event] = 0]_textVars
=============================================================================
