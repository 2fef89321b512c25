-------------------------------- MODULE Export --------------------------------
(***************************************************************************)
(* The PDF of an employee (Apis/employee_download.py): sections drawn from *)
(* the top of an A4 page down.  Every helper takes the cursor y, starts a  *)
(* new page when it finds too little room, and returns where it stopped.   *)
(* Lengths are millimetres and y counts from the bottom of the page.  The  *)
(* request holds its rows and shares nothing: only the layout is modelled. *)
(***************************************************************************)
EXTENDS RecordsDomain, Integers

CONSTANTS
    MaxContacts,   \* entries of contact_info
    EntryHeights,  \* heights of a wrapped entry of contact_info
    TableHeights,  \* heights of a table, its header included
    Tables,        \* the number of table sections
    Certified      \* the first of them, whose rows may name a certificate

VARIABLES
    at,       \* what is drawn next
    section,  \* its section: 0 personal, 1 employment, then the tables
    left,     \* lines or entries left of it
    y,        \* the cursor
    low,      \* the lowest text, entry or table of the page; Page when there is none
    image,    \* the lower edge of the picture on the page; Page when there is none
    item      \* what was drawn last, the lowest ink it was drawn under, and if that
              \* is of a picture which it is drawn over

vars == <<at, section, left, y, low, image, item>>

Page == 297
Bottom == 30
Top == Page - 20

Heights == EntryHeights \cup TableHeights

TypeOK ==
    /\ at \in {"letterhead", "title", "lines", "contact", "entry", "last", "files",
               "table", "done"}
    /\ section \in 0..Tables + 2 /\ left \in 0..MaxContacts + 6
    /\ y \in Int /\ low \in Int /\ image \in 0..Page
    /\ item = None \/ item \in [kind : {"text", "entry", "table"}, top : 0..Page,
                                bottom : Int, under : Int, covers : BOOLEAN]

Init ==
    /\ at = "letterhead" /\ section = 0 /\ left = 0
    /\ y = Top /\ low = Page /\ image = Page /\ item = None

-----------------------------------------------------------------------------

RoomOnPage(v, n) == IF v < n THEN Top ELSE v    \* a mutant: the margin is forgotten

\* Where something that needs n goes: here, or at the top of a new page.
Room(v, n) == IF v < Bottom + n THEN Top ELSE v

Ink == IF image < low THEN image ELSE low

\* Something drawn from top down; it is on a new page when top is not the cursor.
Draw(kind, top, bottom, next) ==
    /\ item' = [kind |-> kind, top |-> top, bottom |-> bottom,
                under |-> IF top = y THEN Ink ELSE Page,
                covers |-> top = y /\ image <= top /\ top < low]
    /\ y' = next
    /\ low' = IF next > bottom THEN Page ELSE bottom
    /\ image' = IF top = y /\ next <= bottom THEN image ELSE Page

Go(part, s, n) == at' = part /\ section' = s /\ left' = n

\* Logos, the name and, when there is one, the picture: the body starts below.
Letterhead ==
    /\ at = "letterhead"
    /\ \E body \in {224, 249} : y' = body
    /\ Go("title", 0, 0)
    /\ UNCHANGED <<low, image, item>>

Needs(s) == IF s <= 1 THEN 15 ELSE IF s <= 7 THEN 20 ELSE 25

First(s) == IF s <= 1 THEN "lines" ELSE IF s <= 1 + Certified THEN "files" ELSE "table"

Title ==
    /\ at = "title" /\ section <= Tables + 1
    /\ LET v == Room(y, Needs(section)) IN Draw("text", v, v, v - 10)
    /\ \E n \in CASE section = 0 -> {5} [] section = 1 -> 2..6 [] OTHER -> {0} :
           Go(First(section), section, n)

\* Only the personal section is always there.
Skip ==
    /\ at = "title" /\ section \in 1..Tables + 1
    /\ Go("title", section + 1, 0)
    /\ UNCHANGED <<y, low, image, item>>

\* "Key: Value", with a look at the room left before and after it.
Line ==
    /\ at \in {"lines", "last"}
    /\ LET v == Room(y, 12) IN Draw("text", v, v, Room(v - 8, 8))
    /\ IF left > 1 THEN Go(at, section, left - 1)
       ELSE IF at = "lines" /\ section = 0 THEN Go("contact", section, 0)
       ELSE Go("title", section + 1, 0)

\* The label of contact_info, then its entries, each measured.
Contact ==
    /\ at = "contact"
    /\ LET v == Room(y, 12) IN Draw("text", v, v, v - 8)
    /\ \E n \in 0..MaxContacts : Go("entry", section, n)

Entry ==
    /\ at = "entry" /\ left > 0
    /\ \E h \in EntryHeights :
           LET v == Room(y, h) IN Draw("entry", v, v - h, v - h - 1)
    /\ Go("entry", section, left - 1)

ContactEnds ==
    /\ at = "entry" /\ left = 0
    /\ y' = Room(y, 8)
    /\ IF y' = y THEN UNCHANGED <<low, image>> ELSE low' = Page /\ image' = Page
    /\ Go("last", section, 1)
    /\ UNCHANGED item

(***************************************************************************)
(* The rows' certificates are looked at while the table is prepared: a PDF *)
(* is kept for the end, an image gets a page, with a caption 20 mm from    *)
(* the top and in the upper 60 mm the image, drawn over the caption, or,   *)
(* when that fails, the address.  The cursor stays where it was on the     *)
(* page before: what follows goes on from there, over the image.           *)
(***************************************************************************)
Image ==
    /\ at = "files"
    /\ image' \in {Page - 60, Page - 30}
    /\ low' = Top
    /\ UNCHANGED <<at, section, left, y, item>>

Prepared ==
    /\ at = "files"
    /\ Go("table", section, 0)
    /\ UNCHANGED <<y, low, image, item>>

\* Room for a header and a row is asked for, then for the whole table.
Table ==
    /\ at = "table"
    /\ \E h \in TableHeights :
           LET v == Room(Room(y, 11), h) IN Draw("table", v, v - h, v - h - 10)
    /\ Go("title", section + 1, 0)

\* One more page with a letterhead, then the PDFs that were kept are appended.
Save ==
    /\ at = "title" /\ section = Tables + 2
    /\ Go("done", section, 0)
    /\ UNCHANGED <<y, low, image, item>>

Ended == at = "done" /\ UNCHANGED vars

Next ==
    \/ Letterhead \/ Title \/ Skip \/ Line \/ Contact \/ Entry \/ ContactEnds
    \/ Image \/ Prepared \/ Table \/ Save \/ Ended

Spec == Init /\ [][Next]_vars

-----------------------------------------------------------------------------
(***************************************************************************)
(* Properties                                                              *)
(***************************************************************************)

(***************************************************************************)
(* Whatever the record holds, every line, entry and table stays above the  *)
(* bottom margin, but for a table that no page can hold, and below what is *)
(* on the page already: each helper looks for room by itself, with         *)
(* thresholds of its own, before what the one before it left               *)
(* (employee_download.py:803: "to ensure no overlap").  Only pictures of   *)
(* certificates are drawn over, which no cursor stays below.               *)
(***************************************************************************)
Fits(h) == h <= Top - Bottom

Legible ==
    item # None =>
        /\ item.top < item.under \/ item.covers
        /\ Fits(item.top - item.bottom) => item.bottom >= Bottom
=============================================================================
