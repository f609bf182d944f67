------------------------------ MODULE Assistant ------------------------------
(***************************************************************************)
(* The AI chat of one socket: handleAiChat in chat.gateway.ts, which keeps  *)
(* the last turns in memory, and the searches of gemini.service.ts that turn *)
(* the tags of an answer into shops and services.                           *)
(*                                                                         *)
(* A request reads the history, waits for Gemini, and writes the history     *)
(* back with its own turn; a socket may have several requests under way.     *)
(* Reset and disconnection delete the history at once.  A turn (question and *)
(* answer) is its number; what Gemini says is the tags it may set.          *)
(***************************************************************************)
EXTENDS Integers, FiniteSets, Sequences

CONSTANTS Asks,           \* requests that may be under way
          MaxTurns,       \* AI_HISTORY_MAX_TURNS
          MaxAsked,       \* bound: requests of the socket
          Shops,          \* records: place, offers (keywords), active, rating, distance
          Keywords, Cities,
          Tags            \* what an answer may set: kws, stores, topRated, place; located:
                          \* the socket has sent a position

ASSUME AssistantConstants ==
  /\ MaxTurns \in Nat \ {0} /\ MaxAsked \in Nat
  /\ IsFiniteSet(Shops)
  /\ \A s \in Shops : s.place \in Cities /\ s.offers \subseteq Keywords
  /\ Tags \subseteq [kws : SUBSET Keywords, stores : SUBSET Keywords, topRated : BOOLEAN,
                     place : Cities \cup {"none", "near"}, located : BOOLEAN]

NotAsking == [turn |-> 0, seen |-> << >>]
NoReply   == [stores |-> {}, services |-> {}, composed |-> FALSE,
              tags |-> [kws |-> {}, stores |-> {}, topRated |-> FALSE, place |-> "none", located |-> FALSE]]

VARIABLES session,     \* aiSessions.get(client.id), without an entry << >>
          connected,
          asking,      \* asking[q]: a request, with the history it has read
          asked,       \* requests so far
          reply,       \* the ai_reply of the last step, if it sent one
          expected,    \* ghost: turns answered since the last reset
          overlapped   \* ghost: a request has run next to another, a reset or the disconnection

aiVars == <<session, connected, asking, asked, reply, expected, overlapped>>

AiInit ==
  /\ session = << >>
  /\ connected = TRUE
  /\ asking = [q \in Asks |-> NotAsking]
  /\ asked = 0
  /\ reply = NoReply
  /\ expected = << >>
  /\ overlapped = FALSE

UnderWay == {q \in Asks : asking[q] # NotAsking}
LastOf(s, n) == IF Len(s) <= n THEN s ELSE SubSeq(s, Len(s) - n + 1, Len(s))

-----------------------------------------------------------------------------
\* The searches.  Services: any of the keywords, in active stores.  Stores: all service
\* keywords and all place names; "near me" filters nothing, it orders by distance if the
\* socket has sent a position.
FetchServices(kws) == UNION {{<<s, k>> : k \in kws \cap s.offers} : s \in {t \in Shops : t.active}}

Top(S, n, Rank(_)) == {s \in S : Cardinality({t \in S : Rank(t) < Rank(s)}) < n}
ByRating(s)   == -s.rating
ByDistance(s) == s.distance

FetchStores(tags, place, located) ==
  LET fitting == {s \in Shops : /\ s.active
                                /\ tags.stores \subseteq s.offers
                                /\ place \in Cities => s.place = place}
  IN IF tags.stores = {} /\ place = "none" /\ ~tags.topRated THEN {}
     ELSE IF place = "near" /\ located THEN Top(Top(fitting, 50, ByRating), 3, ByDistance)
     ELSE Top(fitting, 3, ByRating)

\* Asked for a service at a place and found nothing: search everywhere and let Gemini
\* say so.
Compose(tags) ==
  LET found     == FetchStores(tags, tags.place, tags.located)
      elsewhere == found = {} /\ tags.place # "none" /\ (tags.stores # {} \/ tags.topRated)
  IN [stores |-> IF elsewhere THEN FetchStores(tags, "none", FALSE) ELSE found,
      services |-> FetchServices(tags.kws),
      composed |-> elsewhere,
      tags |-> tags]

-----------------------------------------------------------------------------
Ask(q) ==
  /\ connected /\ asking[q] = NotAsking /\ asked < MaxAsked
  /\ asked' = asked + 1
  /\ asking' = [asking EXCEPT ![q] = [turn |-> asked + 1, seen |-> session]]
  /\ overlapped' = (overlapped \/ UnderWay # {})
  /\ reply' = NoReply
  /\ UNCHANGED <<session, connected, expected>>

\* Mutant: the limit counts messages, two of which make a turn.
AnswerTrimmed(q) ==
  /\ asking[q] # NotAsking
  /\ session' = LastOf(Append(asking[q].seen, asking[q].turn), MaxTurns \div 2)
  /\ expected' = Append(expected, asking[q].turn)
  /\ asking' = [asking EXCEPT ![q] = NotAsking]
  /\ \E tags \in Tags : reply' = Compose(tags)
  /\ UNCHANGED <<connected, asked, overlapped>>

\* Gemini has answered; an error of it is an answer without tags.
Answer(q) ==
  /\ asking[q] # NotAsking
  /\ session' = LastOf(Append(asking[q].seen, asking[q].turn), MaxTurns)
  /\ expected' = Append(expected, asking[q].turn)
  /\ asking' = [asking EXCEPT ![q] = NotAsking]
  /\ \E tags \in Tags : reply' = Compose(tags)
  /\ UNCHANGED <<connected, asked, overlapped>>

\* A query throws: no answer and no turn.
AnswerFails(q) ==
  /\ asking[q] # NotAsking
  /\ asking' = [asking EXCEPT ![q] = NotAsking]
  /\ reply' = NoReply
  /\ UNCHANGED <<session, connected, asked, expected, overlapped>>

Forget ==
  /\ session' = << >>
  /\ expected' = << >>
  /\ overlapped' = (overlapped \/ UnderWay # {})
  /\ reply' = NoReply
  /\ UNCHANGED <<asking, asked>>

HandleAiReset    == connected /\ Forget /\ UNCHANGED connected
HandleDisconnect == connected /\ Forget /\ connected' = FALSE

AiNext == \/ \E q \in Asks : Ask(q) \/ Answer(q) \/ AnswerFails(q)
          \/ HandleAiReset \/ HandleDisconnect

-----------------------------------------------------------------------------
\* The history never outgrows the limit, and as long as the requests of a socket come
\* one after the other it is the last turns since the reset, and gone with the socket.
\* Requests that overlap lose turns, bring back a history that was reset, or leave one
\* behind for a socket that is gone.
SessionIsRecent ==
  /\ Len(session) <= MaxTurns
  /\ ~overlapped => session = LastOf(expected, MaxTurns)

=============================================================================
