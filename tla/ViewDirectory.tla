----------------------------- MODULE ViewDirectory -----------------------------
(***************************************************************************)
(* What a CAS promises about the documents in it: a directory from sofa    *)
(* names to document texts.  A name is found from the moment its sofa is   *)
(* created until the CAS is reset; setting the text of one sofa touches no *)
(* other; and nothing else (looking views up, annotating, following        *)
(* references, changing components) touches any document at all.           *)
(***************************************************************************)

CONSTANTS
    Names,       \* names of sofas
    InitialName, \* the name of the sofa that appears when its text is set
    Texts,       \* texts of length greater than 0
    NoText,      \* no text, or the empty one
    Absent       \* there is no sofa of that name

VARIABLE content  \* what getView(name)->getDocumentText() gives for each name

Init == content = [n \in Names |-> Absent]

\* A new sofa has no text.
Create(n) ==
    /\ content[n] = Absent
    /\ content' = [content EXCEPT ![n] = NoText]

Write(n) ==
    /\ content[n] # Absent \/ n = InitialName
    /\ content'[n] \in Texts \cup {NoText}
    /\ content' = [content EXCEPT ![n] = content'[n]]

\* reset()
Clear == content' = [n \in Names |-> Absent]

\* Deserialization into an empty CAS.
Fill ==
    /\ \A n \in Names : content[n] = Absent
    /\ content' \in [Names -> Texts \cup {NoText, Absent}]

Next ==
    \/ \E n \in Names : Create(n) \/ Write(n)
    \/ Clear
    \/ Fill

Spec == Init /\ [][Next]_content
=============================================================================
