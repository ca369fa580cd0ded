---------------------------- MODULE MCFrontends -----------------------------
(* A small instance of the frontends besides OPC UA: an MCP session over a  *)
(* pipe (MCPSession) and the gRPC or HTTP service (NetworkService). They    *)
(* share no variable, so each behaviour follows one of them, the focus, and *)
(* leaves the other as it began.                                            *)
EXTENDS MCPSession, NetworkService

VARIABLE focus

FrontendsInit ==
    /\ focus \in {"mcp", "network"}
    /\ MCPInit /\ ServiceInit
    /\ focus # "network" => frontend = "http"

FrontendsNext ==
    /\ \/ focus = "mcp" /\ MCPNext /\ UNCHANGED serviceVars
       \/ focus = "network" /\ ServiceNext /\ UNCHANGED mcpVars
    /\ UNCHANGED focus

\* MCPFairness and ServiceFairness of the component in focus.
FrontendsFairness ==
    /\ \A i \in Ids : /\ WF_mcpVars(focus = "mcp" /\ Handler(i))
                      /\ WF_mcpVars(focus = "mcp" /\ Write(i))
    /\ WF_mcpVars(focus = "mcp" /\ Closing)
    /\ WF_serviceVars(focus = "network" /\ Serving)
    /\ WF_serviceVars(focus = "network" /\ Stopping)
    /\ \A c \in Calls : WF_serviceVars(focus = "network" /\ Handling(c))

FrontendsSpec ==
    /\ FrontendsInit
    /\ [][FrontendsNext]_<<focus, mcpVars, serviceVars>>
    /\ FrontendsFairness
=============================================================================
