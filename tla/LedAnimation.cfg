CONSTANTS
    wifi_task = wifi_task
    button_task = button_task
    led_animation_task = led_animation_task
    Callers = {wifi_task}
    Animation = led_animation_task
    Requests = {"WIFI_CONNECTING", "READY"}
SPECIFICATION FairSpec
PROPERTY AnimationLights
