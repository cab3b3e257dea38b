--------------------------- MODULE MCConversation ---------------------------
(***************************************************************************)
(* One conversation with a request and a subscription: the request, the    *)
(* subscription or none of them asks to keep the connection.               *)
(***************************************************************************)
EXTENDS Conversation

CONSTANTS request, listen

options(keepers) ==
    [t \in Transactions |->
        [ReadStatusUpdates |-> t = request,
         ReadResult        |-> TRUE,
         KeepAlive         |-> t \in keepers]]

MCPipelines ==
    {options(keepers) : keepers \in {{}, {request}, {listen}}}
        \cup {[options({listen}) EXCEPT ![listen].ReadResult = FALSE]}
=============================================================================
