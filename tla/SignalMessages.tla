---------------------------- MODULE SignalMessages ----------------------------
(***************************************************************************)
(* The text of a signaling message and the three programs that read it:    *)
(* signaling/signaling_message.cc writes and searches it as text, the      *)
(* server and the page parse it as JSON.                                   *)
(*                                                                         *)
(* A text is the sequence of its key/value pairs as they are written, each *)
(* with the object it stands in: "top", or "candidate" or "payload" for an *)
(* object nested under that key.  A value is a name, a number, Null, or a  *)
(* description: the record of what it describes and whether its line        *)
(* breaks are escaped; an SDP always has several lines.                    *)
(***************************************************************************)
EXTENDS Naturals, Sequences, FiniteSets, SequencesExt

CONSTANTS None, Null

Description(d) == [d |-> d, escaped |-> FALSE]

\* What JSON.stringify makes of a description.
Escape(sdp) == [sdp EXCEPT !.escaped = TRUE]

\* A pair, or nothing for a value that is missing.
Pair(at, key, val) ==
  IF val = None THEN <<>> ELSE <<[at |-> at, key |-> key, val |-> val]>>

-----------------------------------------------------------------------------
(* signaling_message.cc: a message is a SignalMessage, None for nullopt    *)
(* and for an empty id.                                                    *)

Types == {"join", "leave", "offer", "answer", "candidate"}

StringToType(t) == IF t \in Types THEN t ELSE "unknown"

\* The candidate is an object of its own, with both spellings of its index.
\* Nothing is escaped.
SerializeSignalMessage(m) ==
  Pair("top", "type", m.type) \o Pair("top", "from", m.from) \o Pair("top", "to", m.to)
  \o Pair("top", "sdp", m.sdp)
  \o IF m.candidate = None THEN <<>>
     ELSE Pair("candidate", "candidate", m.candidate)
          \o Pair("candidate", "sdpMid", m.sdpMid)
          \o Pair("candidate", "sdpMlineIndex", m.sdpMlineIndex)
          \o Pair("candidate", "sdpMLineIndex", m.sdpMlineIndex)

\* findQuotedValue and findIntValue: the first place in the text, at whatever
\* depth, where the key is followed by a value of the kind; null is neither.
findValue(text, key) ==
  LET k == SelectInSeq(text, LAMBDA p : p.key = key /\ p.val # Null)
  IN IF k = 0 THEN None ELSE text[k].val

\* Mutant: only the spelling of the C++ side is looked for.
DeserializeSignalMessage_OneSpelling(text) ==
  [type          |-> StringToType(findValue(text, "type")),
   from          |-> findValue(text, "from"),
   to            |-> findValue(text, "to"),
   sdp           |-> findValue(text, "sdp"),
   candidate     |-> findValue(text, "candidate"),
   sdpMid        |-> findValue(text, "sdpMid"),
   sdpMlineIndex |-> findValue(text, "sdpMlineIndex")]

\* No text is refused: one without a known type is an UNKNOWN message.
DeserializeSignalMessage(text) ==
  [type          |-> StringToType(findValue(text, "type")),
   from          |-> findValue(text, "from"),
   to            |-> findValue(text, "to"),
   sdp           |-> findValue(text, "sdp"),
   candidate     |-> findValue(text, "candidate"),
   sdpMid        |-> findValue(text, "sdpMid"),
   sdpMlineIndex |-> IF findValue(text, "sdpMlineIndex") # None
                     THEN findValue(text, "sdpMlineIndex")
                     ELSE findValue(text, "sdpMLineIndex")]

-----------------------------------------------------------------------------
(* The server.                                                             *)

\* A raw line break in a string is no JSON.
IsJson(text) == \A k \in DOMAIN text : text[k].key = "sdp" => text[k].val.escaped

\* The value of a key of one object of the text.
Field(text, at, key) ==
  LET k == SelectInSeq(text, LAMBDA p : p.at = at /\ p.key = key)
  IN IF k = 0 THEN None ELSE text[k].val

\* The pairs at the places K, in their order: at n, the one at the n-th place.
Pick(text, K) ==
  [n \in 1..Cardinality(K) |->
     text[CHOOSE k \in K : Cardinality({j \in K : j <= k}) = n]]

Without(text, keys) == Pick(text, {k \in DOMAIN text : text[k].key \notin keys})

\* The envelope is opened: its payload with the envelope's from and to, the
\* sender's id for a missing one.
Opened(text, id) ==
  IF Field(text, "top", "type") # "signaling" THEN text
  ELSE LET from == Field(text, "top", "from")
           inner == Pick(text, {k \in DOMAIN text : text[k].at = "payload"})
           payload == [k \in DOMAIN inner |-> [inner[k] EXCEPT !.at = "top"]]
       IN Without(payload, {"from", "to"})
            \o Pair("top", "from", IF from = None THEN id ELSE from)
            \o Pair("top", "to", Field(text, "top", "to"))

\* The page's spelling is added to a flat candidate that lacks it.
WithIndex(text) ==
  IF /\ Field(text, "top", "type") = "candidate"
     /\ Field(text, "top", "sdpMLineIndex") = None
  THEN text \o Pair("top", "sdpMLineIndex", Field(text, "top", "sdpMlineIndex"))
  ELSE text

Normalized(text, id) == WithIndex(Opened(text, id))

\* What server.js answers to a text that is none.
ErrorText == Pair("top", "type", "error")

-----------------------------------------------------------------------------
(* The page.                                                               *)

\* JSON.stringify of the message, direct or in an envelope; 'index' is the
\* spelling of the candidate's key.
PageText(type, from, to, sdp, c, index, enveloped) ==
  LET at   == IF enveloped THEN "payload" ELSE "top"
      body == Pair(at, "type", type)
                \o (IF sdp = None THEN <<>> ELSE Pair(at, "sdp", Escape(sdp)))
                \o (IF c = None THEN <<>>
                    ELSE Pair(at, "candidate", c.candidate) \o Pair(at, "sdpMid", c.sdpMid)
                         \o Pair(at, index, c.sdpMlineIndex))
      ids  == Pair("top", "from", from) \o Pair("top", "to", to)
  IN IF enveloped THEN Pair("top", "type", "signaling") \o body \o ids ELSE body \o ids
=============================================================================
