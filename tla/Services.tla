------------------------------ MODULE Services ------------------------------
(***************************************************************************)
(* A send of one event to one service: the request that discord.go,        *)
(* slack.go and telegram.go make of it, and what http.go makes of the      *)
(* answer.  The services and the network are external.                     *)
(***************************************************************************)

\* The request of an event with or without a picture: Discord gets it as a
\* part of the message, Slack does without, Telegram has a method for it.
DiscordRequest(picture) == [multipart |-> picture, endpoint |-> "webhook"]
SlackRequest == [multipart |-> FALSE, endpoint |-> "webhook"]
TelegramRequest(picture) ==
  [multipart |-> picture,
   endpoint |-> IF picture THEN "sendPhoto" ELSE "sendMessage"]

Request(service, picture) ==
  CASE service = "discord"  -> DiscordRequest(picture)
    [] service = "slack"    -> SlackRequest
    [] service = "telegram" -> TelegramRequest(picture)

\* What may come of a request: a status or none, and whether the service
\* took the message.  It may have, and the answer be lost or too late for the
\* 15 seconds of fanOut; or not, and the answer be 200 all the same, because
\* a redirect made the POST a GET of some other page.  A picture may be more
\* than the service takes.
Outcome(status, taken) == [status |-> status, taken |-> taken]
Redirected == Outcome("2xx", FALSE)
Outcomes(request) ==
  {Outcome("2xx", TRUE), Outcome("5xx", FALSE), Outcome("none", FALSE),
   Outcome("none", TRUE), Redirected}
    \cup (IF request.multipart THEN {Outcome("413", FALSE)} ELSE {})

\* Mutant: any answer is a success.
FailsWithoutAnswer(outcome) == outcome.status = "none"

\* postJSON and postMultipart return an error.
Fails(outcome) == outcome.status # "2xx"
=============================================================================
