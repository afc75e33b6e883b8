------------------------- MODULE MCWebhookDispatch -------------------------
EXTENDS WebhookDispatch

CONSTANTS crm, audit, received, connected

MCSubscribed == [w \in Webhooks |-> IF w = crm THEN {} ELSE {received}]
MCPast == <<crm>>
MCEdits == {[enabled |-> FALSE, events |-> {received}]}
=============================================================================
