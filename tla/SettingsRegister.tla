--------------------------- MODULE SettingsRegister ---------------------------
(***************************************************************************)
(* What the settings store promises those who use it, however many         *)
(* processes they are in: one document, read whole and saved in one step.  *)
(* A client sees the document in effect at the moment it looks.  What it   *)
(* then asks for is made of what it saw, and is carried out, once, on the  *)
(* document in effect when it is saved, or not at all.  Only a new release *)
(* changes the document otherwise, when no client is at work.              *)
(***************************************************************************)
EXTENDS Naturals

CONSTANTS Clients, Titles, Entries, Default,
          Keep, Nothing    \* no change of a field; no view, no order

Documents == [title : Titles, boards : SUBSET Entries]

\* What is asked of the document: a title, a list, entries to add to the list.
Orders == [title : Titles \union {Keep}, boards : (SUBSET Entries) \union {Keep},
           plus : SUBSET Entries]

VARIABLES document,  \* the settings in effect
          stamp,     \* how many saves there were
          view,      \* what each client looks at: [stamp, document]
          order      \* what each client waits to have saved

register == <<document, stamp, view, order>>

Init ==
    /\ document = Default /\ stamp = 0
    /\ view = [c \in Clients |-> Nothing]
    /\ order = [c \in Clients |-> Nothing]

\* A title; a list with one entry more or less than the one seen; an entry to append; a whole
\* document.
Fits(o, seen) ==
    \/ o.boards = Keep /\ o.plus = {}
    \/ /\ o.title = Keep /\ o.plus = {}
       /\ \E e \in Entries : o.boards = seen.boards \union {e} \/ o.boards = seen.boards \ {e}
    \/ o.title = Keep /\ o.boards = Keep /\ \E e \in Entries : o.plus = {e}
    \/ o.title # Keep /\ o.boards # Keep /\ o.plus = {}

Applied(o, doc) ==
    [title |-> IF o.title = Keep THEN doc.title ELSE o.title,
     boards |-> (IF o.boards = Keep THEN doc.boards ELSE o.boards) \union o.plus]

Look(c) ==
    /\ view[c] = Nothing /\ order[c] = Nothing
    /\ view' = [view EXCEPT ![c] = [stamp |-> stamp, document |-> document]]
    /\ UNCHANGED <<document, stamp, order>>

LookAway(c) ==
    /\ view[c] # Nothing /\ view' = [view EXCEPT ![c] = Nothing]
    /\ UNCHANGED <<document, stamp, order>>

Ask(c) ==
    /\ view[c] # Nothing /\ view' = [view EXCEPT ![c] = Nothing]
    /\ order' = [order EXCEPT ![c] = order'[c]]
    /\ order'[c] \in Orders /\ Fits(order'[c], view[c].document)
    /\ UNCHANGED <<document, stamp>>

Save(c) ==
    /\ order[c] # Nothing /\ order' = [order EXCEPT ![c] = Nothing]
    /\ stamp' = stamp + 1 /\ document' = Applied(order[c], document)
    /\ UNCHANGED view

GiveUp(c) ==
    /\ order[c] # Nothing /\ order' = [order EXCEPT ![c] = Nothing]
    /\ UNCHANGED <<document, stamp, view>>

Release ==
    /\ view' = [c \in Clients |-> Nothing] /\ order' = [c \in Clients |-> Nothing]
    /\ document' \in Documents
    /\ UNCHANGED stamp

Next ==
    \/ \E c \in Clients : Look(c) \/ LookAway(c) \/ Ask(c) \/ Save(c) \/ GiveUp(c)
    \/ Release

Spec == Init /\ [][Next]_register
=============================================================================
