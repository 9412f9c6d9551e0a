CONSTANTS
    Flows <- MCFlows
    Value <- MCValue
    NoSchema <- MCNoSchema
    NoExpr <- MCNoExpr
SPECIFICATION Spec
INVARIANTS
    TypesDescribeValues
    AcceptedInputsFit
    InferredSchemaSuffices
CHECK_DEADLOCK FALSE
