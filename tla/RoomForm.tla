------------------------------ MODULE RoomForm ------------------------------
(***************************************************************************)
(* The form that creates a room in the lobby of the web client, and the     *)
(* checks of the API.  One form serves the standard and the custom room and *)
(* keeps what it was given for the next time; fields that do not apply are  *)
(* hidden.  The timer, the bots, the decks and the name are of no account.  *)
(***************************************************************************)
EXTENDS Naturals

CONSTANTS Ratings,      \* ratings that may be typed
          Around,       \* by how much a room's range differs from the creator's
          Scores        \* points that may be typed for a rank, 0 among them

ASSUME FormAssumption == Ratings \subseteq Nat /\ Around \in Nat /\ Scores \subseteq Nat

VARIABLES form,         \* the fields, and whether the dialog is open
          rating,       \* the creator's rating once it is known
          request       \* POST /rooms under way: what is wrong with it

formVars == <<form, rating, request>>

Unknown == [is |-> FALSE, at |-> 0]
NoRequest == [st |-> "none", wrong |-> {}, shown |-> {}]

FreshForm == [open |-> FALSE, mode |-> "classic", visibility |-> "public",
              limited |-> FALSE, min |-> 1, max |-> 2,
              players |-> 4, scoring |-> "rank_value", score |-> 1, team |-> "ffa"]

\* The fields that are on the page beside those that always are.
ShownFields ==
  (IF form.visibility = "public" /\ form.limited THEN {"rating"} ELSE {})
    \union (IF form.mode = "custom" THEN {"team"} ELSE {})
    \union (IF form.mode = "custom" /\ form.scoring = "custom" THEN {"score"} ELSE {})

-----------------------------------------------------------------------------
(* The API: what it finds wrong with a request.                            *)

Wrong(asked) ==
  (IF asked.limited /\ asked.min > asked.max THEN {"rating"} ELSE {})
    \union (IF asked.team = "2v2" /\ asked.players \notin {4, 6} THEN {"team"} ELSE {})
    \union (IF asked.scoring = "custom" /\ asked.score \notin 1..100 THEN {"score"} ELSE {})

Answers ==
  /\ request.st = "sent"
  /\ request' = [request EXCEPT !.st = IF request.wrong = {} THEN "created" ELSE "refused"]
  /\ UNCHANGED <<form, rating>>

-----------------------------------------------------------------------------
(* The form.                                                               *)

RatingArrives(r) ==
  /\ ~rating.is /\ rating' = [is |-> TRUE, at |-> r]
  /\ UNCHANGED <<form, request>>

OpenCreate ==
  /\ ~form.open
  /\ form' = LET blank == [form EXCEPT !.open = TRUE, !.mode = "classic"]
                 low == IF rating.at < Around THEN 0 ELSE rating.at - Around
             IN IF rating.is THEN [blank EXCEPT !.min = low, !.max = rating.at + Around] ELSE blank
  /\ UNCHANGED <<rating, request>>

OpenCustom ==
  /\ ~form.open
  /\ form' = [form EXCEPT !.open = TRUE, !.mode = "custom"]
  /\ UNCHANGED <<rating, request>>

CloseForm ==
  /\ form.open /\ form' = [form EXCEPT !.open = FALSE]
  /\ UNCHANGED <<rating, request>>

Fill(filled) ==
  /\ form.open /\ form' \in filled
  /\ UNCHANGED <<rating, request>>

ChooseVisibility == Fill({[form EXCEPT !.visibility = v] : v \in {"public", "private"}})

ChooseRatings ==
  /\ form.visibility = "public"
  /\ \/ Fill({[form EXCEPT !.limited = ~form.limited]})
     \/ form.limited /\ Fill({[form EXCEPT !.min = r] : r \in Ratings} \union {[form EXCEPT !.max = r] : r \in Ratings})

\* Mutant: the team mode stays.
PlayersAlone ==
  form.mode = "custom" /\ Fill({[form EXCEPT !.players = n] : n \in {2, 3, 4, 6}})

\* A number of seats that has no teams ends the team mode.
ChoosePlayers ==
  /\ form.mode = "custom"
  /\ Fill({[form EXCEPT !.players = n, !.team = IF n \in {4, 6} THEN form.team ELSE "ffa"] : n \in {2, 3, 4, 6}})

ChooseScoring ==
  /\ form.mode = "custom"
  /\ \/ Fill({[form EXCEPT !.scoring = s] : s \in {"rank_value", "flat", "custom"}})
     \/ form.scoring = "custom" /\ Fill({[form EXCEPT !.score = s] : s \in Scores})

ChooseTeam ==
  /\ form.mode = "custom"
  /\ \/ Fill({[form EXCEPT !.team = "ffa"]})
     \/ form.players \in {4, 6} /\ Fill({[form EXCEPT !.team = "2v2"]})

\* Fields of a custom room and a range that is not asked for are left out.
Asked ==
  [form EXCEPT !.limited = @ /\ form.visibility = "public",
               !.players = IF form.mode = "custom" THEN @ ELSE 4,
               !.team = IF form.mode = "custom" THEN @ ELSE "ffa",
               !.scoring = IF form.mode = "custom" THEN @ ELSE "rank_value"]

\* The browser lets points from 0 to 99 through.  Other fields than the
\* button stay open while the request is under way.
SubmitForm ==
  /\ form.open /\ request.st = "none"
  /\ "score" \in ShownFields => form.score \in 0..99
  /\ request' = [st |-> "sent", wrong |-> Wrong(Asked), shown |-> ShownFields]
  /\ UNCHANGED <<form, rating>>

\* A created room takes its player away, and the form with the page; after a
\* refusal (or a failure) the form is as it was.
RequestReturns ==
  /\ request.st # "none"
  /\ request' = NoRequest
  /\ form' = IF request.st = "created" THEN FreshForm ELSE form
  /\ rating' = IF request.st = "created" THEN Unknown ELSE rating

-----------------------------------------------------------------------------
FormInit == form = FreshForm /\ rating = Unknown /\ request = NoRequest

FormNext ==
  \/ Answers \/ \E r \in Ratings : RatingArrives(r)
  \/ OpenCreate \/ OpenCustom \/ CloseForm
  \/ ChooseVisibility \/ ChooseRatings \/ ChoosePlayers \/ ChooseScoring \/ ChooseTeam
  \/ SubmitForm \/ RequestReturns

FormSpec == FormInit /\ [][FormNext]_formVars

-----------------------------------------------------------------------------
\* Whatever the form was filled with, for whichever room and time: the API
\* refuses a request only for a field its player saw when they sent it, and
\* never for the teams, which the form keeps in step with the seats.
RefusedForWhatIsShown ==
  request.st = "refused" => request.wrong \subseteq request.shown \ {"team"}
=============================================================================
