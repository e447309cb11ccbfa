CONSTANTS
  Requests = {r1}
  Codes = {200, 404, 503}
SPECIFICATION Spec
CHECK_DEADLOCK FALSE
INVARIANT CountedAsAnswered
