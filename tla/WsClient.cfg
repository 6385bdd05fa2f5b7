CONSTANTS
    button_task = button_task
    audio_read_task = audio_read_task
    Senders = {button_task, audio_read_task}
    MaxEpoch = 3
SPECIFICATION FairSpec
INVARIANTS TypeOK EndsOnlyOnClose
PROPERTIES ImplementsLink LinkRoles SilenceNoticed SendersServed Reconnects
CHECK_DEADLOCK FALSE
