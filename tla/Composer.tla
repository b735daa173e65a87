------------------------------- MODULE Composer -------------------------------
(***************************************************************************)
(* The box a question is written in (web/src/pages/Chat.tsx): its text,    *)
(* the image attached to it, and the microphone.                           *)
(*                                                                         *)
(* A file that was chosen is read by the browser and an utterance is       *)
(* recognised by it: both come back as callbacks, whenever they are ready. *)
(* Nobody stops a recogniser when the page is left: it goes on, and what   *)
(* it tells the page that was left changes nothing.                        *)
(* A text is a sequence of words, numbered in the order they came.         *)
(***************************************************************************)
EXTENDS Naturals, Sequences, SequencesExt

VARIABLES
    input,      \* words in the box
    image,      \* the image attached, 0 if there is none
    loading,    \* images chosen that the browser still reads
    mics,       \* recognisers of speech: [n, running, live], live while its page is shown
    listening,  \* the button shows that the page listens
    \* what the properties speak of
    words, images, pressed,     \* how many there were
    sent,                       \* for each question, its words and the image it mentions
    discarded                   \* images whose data the page no longer has

boxVars == <<input, image, loading, mics, listening>>
madeVars == <<words, images, pressed, discarded>>
composerVars == <<boxVars, madeVars, sent>>

ComposerInit == /\ input = <<>> /\ image = 0 /\ loading = {}
                /\ mics = {} /\ listening = FALSE
                /\ words = 0 /\ images = 0 /\ pressed = 0
                /\ sent = <<>> /\ discarded = {}

(* Wrong: the image stays. *)
SendBoxKeepingImage ==
    /\ words' = words + 1
    /\ sent' = Append(sent, [words |-> Append(input, words'), mention |-> image])
    /\ input' = <<>>
    /\ UNCHANGED <<image, loading, mics, listening, images, pressed, discarded>>

(* The user writes a word and sends what is in the box: it is emptied.  Of *)
(* an image only the mention goes, with its size; the data goes nowhere.   *)
SendBox ==
    /\ words' = words + 1
    /\ sent' = Append(sent, [words |-> Append(input, words'), mention |-> image])
    /\ input' = <<>> /\ image' = 0
    /\ discarded' = discarded \union ({image} \ {0})
    /\ UNCHANGED <<loading, mics, listening, images, pressed>>

(* One of the examples of an empty page takes the place of what was        *)
(* written.                                                                *)
ChooseExample ==
    /\ words' = words + 1
    /\ input' = <<words'>>
    /\ UNCHANGED <<image, loading, mics, listening, images, pressed, sent, discarded>>

(* An image is chosen, or pasted. *)
ChooseImage ==
    /\ images' = images + 1
    /\ loading' = loading \union {images'}
    /\ UNCHANGED <<input, image, mics, listening, words, pressed, sent, discarded>>

ImageLoaded(i) ==
    /\ loading' = loading \ {i}
    /\ image' = i
    /\ discarded' = discarded \union ({image} \ {0})
    /\ UNCHANGED <<input, mics, listening, words, images, pressed, sent>>

RemoveImage ==
    /\ image # 0
    /\ image' = 0
    /\ discarded' = discarded \union {image}
    /\ UNCHANGED <<input, loading, mics, listening, words, images, pressed, sent>>

(* Each press makes a recogniser; while the page listens it is the new one *)
(* that is told to stop, which it has not even begun.                      *)
PressMic ==
    /\ pressed' = pressed + 1
    /\ mics' = IF listening THEN mics ELSE mics \union {[n |-> pressed', running |-> FALSE, live |-> TRUE]}
    /\ UNCHANGED <<input, image, loading, listening, words, images, sent, discarded>>

MicStarts(r) ==
    /\ ~r.running
    /\ mics' = (mics \ {r}) \union {[n |-> r.n, running |-> TRUE, live |-> r.live]}
    /\ listening' = (listening \/ r.live)
    /\ UNCHANGED <<input, image, loading, madeVars, sent>>

(* Wrong: only what it heard is taken from it. *)
MicEndsUnseen(r) ==
    /\ r.running
    /\ mics' = mics \ {r}
    /\ \/ /\ r.live
          /\ words' = words + 1
          /\ input' = Append(input, words')
       \/ UNCHANGED <<words, input>>
    /\ UNCHANGED <<image, loading, listening, images, pressed, sent, discarded>>

(* It ends after one utterance, or without any. *)
MicEnds(r) ==
    /\ r.running
    /\ mics' = mics \ {r}
    /\ listening' = (listening /\ ~r.live)
    /\ \/ /\ r.live
          /\ words' = words + 1
          /\ input' = Append(input, words')
       \/ UNCHANGED <<words, input>>
    /\ UNCHANGED <<image, loading, images, pressed, sent, discarded>>

(* The page goes away with its box; no callback changes it any more. *)
CloseBox ==
    /\ input' = <<>> /\ image' = 0 /\ loading' = {}
    /\ mics' = {[n |-> r.n, running |-> r.running, live |-> FALSE] : r \in mics}
    /\ listening' = FALSE
    /\ discarded' = discarded \union loading \union ({image} \ {0})
    /\ UNCHANGED <<words, images, pressed, sent>>

-----------------------------------------------------------------------------
SentWords == FlattenSeq([n \in DOMAIN sent |-> sent[n].words])
Mentioned == {sent[n].mention : n \in DOMAIN sent} \ {0}

(* No word is sent twice, and words are sent in the order they came; what  *)
(* is left in the box came after all that was sent.  Words may be gone: an *)
(* example takes the place of what was written, and a page that is left    *)
(* goes with its box.                                                      *)
WordsInOrder ==
    LET all == SentWords \o input
    IN \A i, j \in DOMAIN all : i < j => all[i] < all[j]

(* An image is mentioned by one question or none, which leaves the box     *)
(* without it; one that was chosen is being read, attached or gone.        *)
ImagesOnce ==
    /\ \A m, n \in DOMAIN sent : m # n /\ sent[m].mention = sent[n].mention => sent[m].mention = 0
    /\ Mentioned \subseteq discarded
    /\ 1..images = loading \union ({image} \ {0}) \union discarded
    /\ discarded \cap (loading \union {image}) = {}

(* "include image if attached" (Chat.tsx:109): the image that a question   *)
(* mentions is not thrown away.                                            *)
ImageIncluded == Mentioned \cap discarded = {}

(* The button says that the page listens only while a recogniser of its    *)
(* own runs.  Of one whose page was left no button says anything.          *)
ListensWhenShown == listening => \E r \in mics : r.live /\ r.running
=============================================================================
