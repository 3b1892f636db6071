---------------------------- MODULE MCHttpServing ----------------------------
(* Two connections, one of each kind of request, one place in the gate *)
EXTENDS HttpServing

Req(m, t, b, s) == [method |-> m, target |-> t, authorized |-> TRUE, body |-> b, stream |-> s]

MCRequests ==
  {[Req("GET", "/v1/models", "prompt", FALSE) EXCEPT !.authorized = FALSE],
   Req("POST", "/v1/completions", "prompt", TRUE),
   Req("POST", "/v1/chat/completions", "prompt", FALSE),
   Req("POST", "/v1/completions", "bad_options", FALSE),
   Req("POST", "/v1/warm", "prompt", FALSE),
   Req("GET", "not_utf8", "prompt", FALSE),
   Req("POST", "/v1/sessions/id/save", "prompt", FALSE)}
=============================================================================
