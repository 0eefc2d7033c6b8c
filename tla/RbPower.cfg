CONSTANT MaxCommands = 2
SPECIFICATION PowerSpec
PROPERTY StandbyObeyed
CHECK_DEADLOCK FALSE
