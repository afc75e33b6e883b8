-------------------------- MODULE MCChannelMessages -------------------------
(* Instances of ChannelMessages for TLC. *)
EXTENDS ChannelMessages, TLC

\* A form of each kind the mappers tell apart.
Plain == [type |-> "TEXT", content |-> TRUE, media |-> {}, count |-> 1, sections |-> 1,
          header |-> "none", phone |-> TRUE, currency |-> TRUE]
MCForms ==
  {Plain, [Plain EXCEPT !.type = "LOCATION", !.content = FALSE],
   [Plain EXCEPT !.type = "IMAGE", !.media = {"id"}],
   [Plain EXCEPT !.type = "DOCUMENT", !.media = {"url"}],
   [Plain EXCEPT !.type = "BUTTON_REPLY", !.count = 4],
   [Plain EXCEPT !.type = "BUTTON_REPLY", !.header = "sourceless"],
   [Plain EXCEPT !.type = "LIST_REPLY", !.count = 11, !.sections = 2],
   [Plain EXCEPT !.type = "VCARD", !.phone = FALSE],
   [Plain EXCEPT !.type = "TEMPLATE", !.currency = FALSE],
   [Plain EXCEPT !.type = "POLL"], [Plain EXCEPT !.type = "DICE"],
   [Plain EXCEPT !.type = "CARD"], [Plain EXCEPT !.type = "REACTION"]}

MCSymmetry == Permutations(Chats) \union Permutations(Outbound) \union Permutations(Handlers)
=============================================================================
