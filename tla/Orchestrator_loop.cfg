\* Three model turns, two calls a reply.
SPECIFICATION Spec
CONSTANTS
    intent1 = intent1
    intent2 = intent2
    NoIntent = NoIntent
    Tools = {"web_search", "routing_tool"}
    Invented = "invented_tool"
    Intents = {intent1, intent2}
    MaxSteps = 3
    MaxRegenerations = 1
    MaxCalls = 2
INVARIANTS
    StepIndexPointsAtAction
    ShownIsAnswer
