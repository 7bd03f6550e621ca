------------------------------ MODULE MCServer ------------------------------
(* Server with two requests, in the configurations that come to the points *)
(* where startup can go different ways: with everything and with nothing,  *)
(* in process and over MCP, and without what production cannot start on.   *)
EXTENDS Server, TLC

Set(environment, secrets, backend) ==
  [environment |-> environment, gemini_api_key |-> secrets,
   superhero_api_token |-> secrets, tools_backend |-> backend]

Around(corpus, server) == [paragraphs |-> corpus, vectors |-> corpus, mcp |-> server]

Varied ==
  {<<Set("prod", TRUE, "inprocess"), Around(TRUE, "nothing")>>,
   <<Set("prod", TRUE, "mcp"), Around(TRUE, "token")>>,
   <<Set("dev", FALSE, "mcp"), Around(FALSE, "no_token")>>,
   <<Set("dev", TRUE, "mcp"), Around(TRUE, "nothing")>>,
   <<Set("prod", TRUE, "inprocess"), Around(FALSE, "nothing")>>,
   <<Set("prod", FALSE, "inprocess"), Around(TRUE, "nothing")>>}
=============================================================================
